---- MODULE Spec2Model ----
(***************************************************************************)
(* Bucket Chat: the integrity engine (core/crypto.py), the event model     *)
(* (core/events.py), the storage layout (core/storage.py) and the client   *)
(* (client/client.py).                                                      *)
(*                                                                         *)
(* Data representation                                                      *)
(*   - a Python dict is a TLA+ record whose DOMAIN is the set of its keys;  *)
(*   - None is the empty sequence, an Optional value x is <<x>>;            *)
(*   - an event_id "<room>::<iso timestamp>Z::<uuid>" is the sequence of    *)
(*     its "::"-separated parts;                                            *)
(*   - a base64 SHA-256 digest is a number in 0 .. HashSpace-1: the digest  *)
(*     has a fixed width, so two encodings may share a digest;              *)
(*   - an Ed25519 signature is the pair (signing key, signed bytes): it     *)
(*     verifies under the public key of that key, for those bytes, only.    *)
(***************************************************************************)
EXTENDS Integers, Sequences, FiniteSets, TLC

\* ------------------------------------------------------------------ bounds
\* longest list of events handed to verify_hash_chain
MaxLen == 3
\* number of distinct digest values
HashSpace == 5
\* the client's clock runs from 1 to MaxNow milliseconds
MaxNow == 2
\* the clients create at most MaxEvents events (uuid4 is called that often)
MaxEvents == 2
\* milliseconds in a day of the model's calendar
DayLength == 2
\* keys of one dict inserted anew, at most
MaxMoves == 2
\* calls of ensure_room_structure started, at most
MaxCalls == 3
\* lines left in the log files read back, at most
MaxLines == 3

\* ------------------------------------------------------ program constants
\* Event.validate_timestamp: one hour in milliseconds
ONE_HOUR_MS == 3600000
\* BucketChatClient.get_messages: the number of latest log files read
RECENT_FILES == 10

\* ------------------------------------------------------------- value sets
None == << >>

Some(x) == << x >>

Rooms == {"r1", "r2"}

Users == {"alice", "bob"}

KeyPairs == {"k1", "k2"}

Bodies == {"m1", "m2"}

\* EventTypes
MESSAGE == "m.room.message"

MEMBER == "m.room.member"

REDACTION == "m.room.redaction"

EDIT == "m.room.edit"

REACTION == "m.room.reaction"

TYPING == "m.room.typing"

\* every string the model uses, in a fixed order: its position stands for the
\* string's UTF-8 bytes when a digest is computed
Strings ==
    << "", "r1", "r2", "alice", "bob", "m1", "m2", "m.text",
       "m.room.message", "m.room.member", "m.room.redaction", "m.room.edit",
       "m.room.reaction", "m.room.typing", "join", "leave", "carol", "m3",
       "k1", "k2", " ", " m1 ", "bogus", "+1", "m.room.bogus" >>

Utf8(s) == CHOOSE i \in 1..Len(Strings) : Strings[i] = s

\* json.dumps(..., sort_keys=True): the keys of an event and of its content,
\* in lexicographic order
SortedKeys ==
    << "body", "content", "displayname", "event_id", "membership", "msgtype",
       "parent_event_id", "prev_event_hash", "reaction", "relates_to", "room_id",
       "sender_id", "signature", "timestamp_ms", "type" >>

\* str.strip(): the string without its leading and trailing whitespace
Strip(s) ==
    CASE s = " " -> ""
      [] s = " m1 " -> "m1"
      [] OTHER -> s

RECURSIVE Flatten(_)
Flatten(seqs) == IF seqs = << >> THEN << >> ELSE Head(seqs) \o Flatten(Tail(seqs))

\* ---- text: a string of a log file is a list of pieces; a piece is a JSON
\* text (the list of its (key, value) pairs, empty for no text) and whether a
\* "\n" follows it
Piece(text, nl) == [text |-> text, nl |-> nl]

\* line.strip() of a string that holds one line: its JSON text
StripLine(line) == Flatten([i \in 1..Len(line) |-> line[i].text])

\* "".join(events)
JoinEvents(events) == Flatten(events)

\* content.split('\n'), given the text cur read since the last "\n"
RECURSIVE SplitFrom(_, _)
SplitFrom(content, cur) ==
    LET line(text) == IF text = << >> THEN << >> ELSE << Piece(text, FALSE) >>
    IN  IF content = << >> THEN << line(cur) >>
        ELSE IF Head(content).nl
             THEN << line(cur \o Head(content).text) >> \o SplitFrom(Tail(content), << >>)
             ELSE SplitFrom(Tail(content), cur \o Head(content).text)

\* content.split('\n')
SplitLines(content) == SplitFrom(content, << >>)

RECURSIVE SumSeq(_)
SumSeq(s) == IF s = << >> THEN 0 ELSE Head(s) + SumSeq(Tail(s))

\* dict.get(key, default)
Get(d, k, default) == IF k \in DOMAIN d THEN d[k] ELSE default

\* dict.copy() followed by pop(key, None)
Pop(d, k) == [x \in (DOMAIN d) \ {k} |-> d[x]]

\* dict[key] = value on a copy
Put(d, k, v) == [x \in (DOMAIN d) \cup {k} |-> IF x = k THEN v ELSE d[x]]

\* json.dumps(d, sort_keys=True, separators=(',', ':')) of a flat dict: the
\* sequence of its (key, value) pairs in sorted key order
JsonObject(d) ==
    LET keys == SelectSeq(SortedKeys, LAMBDA k : k \in DOMAIN d)
    IN  [i \in 1..Len(keys) |-> << keys[i], d[keys[i]] >>]

\* a dump that writes the content dict as an opaque object, whatever it holds
JsonDumpsShallow(d) ==
    LET keys == SelectSeq(SortedKeys, LAMBDA k : k \in DOMAIN d)
    IN  [i \in 1..Len(keys) |->
            IF keys[i] = "content"
            THEN << "content", << >> >>
            ELSE << keys[i], d[keys[i]] >>]

\* json.dumps of an event dict: the nested content dict is dumped the same way
JsonDumps(d) ==
    LET keys == SelectSeq(SortedKeys, LAMBDA k : k \in DOMAIN d)
    IN  [i \in 1..Len(keys) |->
            IF keys[i] = "content"
            THEN << "content", JsonObject(d["content"]) >>
            ELSE << keys[i], d[keys[i]] >>]

\* the bytes of a key: its place among the keys
KeyBytes(k) == CHOOSE i \in 1..Len(SortedKeys) : SortedKeys[i] = k

\* the bytes of one JSON value, as a number
ValueBytes(k, v) ==
    CASE k = "timestamp_ms" -> v
      [] k = "prev_event_hash" -> IF v = None THEN 0 ELSE 1 + v[1]
      [] k = "parent_event_id" ->
            IF v = None THEN 0 ELSE 1 + Utf8(v[1][1]) + v[1][2] + v[1][3]
      [] k = "event_id" -> Utf8(v[1]) + v[2] + v[3]
      [] k = "content" ->
            SumSeq([i \in 1..Len(v) |->
                      KeyBytes(v[i][1])
                        + (IF v[i][1] = "relates_to"
                           THEN Utf8(v[i][2][1]) + v[i][2][2] + v[i][2][3]
                           ELSE Utf8(v[i][2]))])
      [] k = "signature" -> 1 + v.len + Utf8(v.signer) + Len(v.msg)
      [] OTHER -> Utf8(v)

\* hashlib.sha256(bytes).digest(), base64 encoded: a digest of fixed width,
\* to which every byte of the input contributes
Sha256(json) ==
    SumSeq([i \in 1..Len(json) |->
              KeyBytes(json[i][1]) + ValueBytes(json[i][1], json[i][2])])
        % HashSpace

\* ------------------------------------------------------ core/crypto.py
\* what a call does: it returns a value or raises
Return(v) == [raised |-> FALSE, value |-> v, exc |-> ""]

Raise(e) == [raised |-> TRUE, value |-> FALSE, exc |-> e]

\* the empty string as a signature: valid base64 of no bytes
EmptySignature == [b64 |-> TRUE, len |-> 0, signer |-> "", msg |-> << >>]

\* KeyPair.public_key_bytes: the 32 raw bytes of the public key of keypair k
PublicKeyBytes(k) == [len |-> 32, key |-> k]

\* KeyPair.sign: the base64 text of the 64-byte Ed25519 signature of data
KeyPairSign(k, data) == [b64 |-> TRUE, len |-> 64, signer |-> k, msg |-> data]

\* the three library calls inside the try of verify_signature_with_public_key:
\* from_public_bytes (ValueError unless 32 bytes), b64decode (binascii.Error
\* unless base64), public_key.verify (InvalidSignature unless the 64 bytes
\* are the signature of data under this key)
Ed25519Calls(data, signature, public_key_bytes) ==
    IF public_key_bytes.len # 32 THEN Raise("ValueError")
    ELSE IF ~signature.b64 THEN Raise("binascii.Error")
    ELSE IF \/ signature.len # 64
            \/ signature.signer # public_key_bytes.key
            \/ signature.msg # data
         THEN Raise("InvalidSignature")
    ELSE Return(TRUE)

verify_signature_with_public_key(data, signature, public_key_bytes) ==
    LET r == Ed25519Calls(data, signature, public_key_bytes)
    IN  IF r.raised THEN Return(FALSE) ELSE Return(TRUE)

\* the canonical JSON of an event: the dump of a copy without its signature
CanonicalJson(event_dict) == JsonDumps(Pop(event_dict, "signature"))

\* a hash over the event as given, signature included
compute_event_hash_with_signature(event_dict) == Sha256(JsonDumps(event_dict))

compute_event_hash(event_dict) ==
    LET event_copy == Pop(event_dict, "signature")
        canonical_json == JsonDumps(event_copy)
    IN  Sha256(canonical_json)

sign_event(event_dict, keypair) ==
    LET event_copy == Pop(event_dict, "signature")
        canonical_json == JsonDumps(event_copy)
        signature == KeyPairSign(keypair, canonical_json)
    IN  Put(event_copy, "signature", signature)

\* ---- dicts with their insertion order: a dict is the list of its items
\* (key, value) in the order the keys were inserted; the content of an event
\* is such a list itself
\* the keys of a dict, in insertion order
KeysOf(items) == [i \in 1..Len(items) |-> items[i][1]]

\* d[k]
ItemValue(items, k) == items[CHOOSE i \in 1..Len(items) : items[i][1] = k][2]

\* d.pop(k, None) on a copy
PopItem(items, k) == SelectSeq(items, LAMBDA it : it[1] # k)

\* d[k] = v on a copy: an existing key keeps its place, a new key goes last
PutItem(items, k, v) ==
    IF \E i \in 1..Len(items) : items[i][1] = k
    THEN [i \in 1..Len(items) |-> IF items[i][1] = k THEN << k, v >> ELSE items[i]]
    ELSE Append(items, << k, v >>)

\* the mapping a flat dict holds, whatever the order of insertion
FlatDictOf(items) ==
    [k \in {items[i][1] : i \in 1..Len(items)} |-> ItemValue(items, k)]

\* the mapping an event dict holds, its content included
DictOf(items) ==
    [k \in {items[i][1] : i \in 1..Len(items)} |->
        IF k = "content" THEN FlatDictOf(ItemValue(items, k)) ELSE ItemValue(items, k)]

\* sort_keys=True: the items in lexicographic order of their keys
SortedItems(items) ==
    LET keys == SelectSeq(SortedKeys, LAMBDA k : \E i \in 1..Len(items) : items[i][1] = k)
    IN  [i \in 1..Len(keys) |-> << keys[i], ItemValue(items, keys[i]) >>]

\* a dump that writes the items in the order the dict holds them
JsonDumpsItemsUnsorted(items, sort_keys) ==
    [i \in 1..Len(items) |-> items[i]]

\* json.dumps(d, sort_keys=sort_keys, separators=(',', ':')) of an event dict
\* held with its insertion order; sort_keys applies to the nested dict too
JsonDumpsItems(items, sort_keys) ==
    LET top == IF sort_keys THEN SortedItems(items) ELSE items
    IN  [i \in 1..Len(top) |->
            IF top[i][1] = "content"
            THEN << "content", IF sort_keys THEN SortedItems(top[i][2]) ELSE top[i][2] >>
            ELSE top[i]]

\* compute_event_hash of a dict held with its insertion order
compute_event_hash_items(items) ==
    LET event_copy == PopItem(items, "signature")
        canonical_json == JsonDumpsItems(event_copy, TRUE)
    IN  Sha256(canonical_json)

\* sign_event of a dict held with its insertion order
sign_event_items(items, keypair) ==
    LET event_copy == PopItem(items, "signature")
        canonical_json == JsonDumpsItems(event_copy, TRUE)
        signature == KeyPairSign(keypair, canonical_json)
    IN  PutItem(event_copy, "signature", signature)

\* the body of the try of verify_event_signature
VerifyEventSignatureBody(event_dict, public_key_bytes) ==
    IF "signature" \notin DOMAIN event_dict THEN Return(FALSE)
    ELSE IF event_dict["signature"] = EmptySignature THEN Return(FALSE)
    ELSE LET event_copy == Pop(event_dict, "signature")
             canonical_json == JsonDumps(event_copy)
         IN  verify_signature_with_public_key(
                 canonical_json, event_dict["signature"], public_key_bytes)

\* verification without the try and without the test for a missing
\* signature: pop('signature') raises KeyError when the key is absent
verify_event_signature_unguarded(event_dict, public_key_bytes) ==
    IF "signature" \notin DOMAIN event_dict THEN Raise("KeyError")
    ELSE verify_signature_with_public_key(
             JsonDumps(Pop(event_dict, "signature")), event_dict["signature"],
             public_key_bytes)

\* verification over the dump of the event with its signature left in
verify_event_signature_keeps_signature(event_dict, public_key_bytes) ==
    IF "signature" \notin DOMAIN event_dict THEN Return(FALSE)
    ELSE IF event_dict["signature"] = EmptySignature THEN Return(FALSE)
    ELSE verify_signature_with_public_key(
             JsonDumps(event_dict), event_dict["signature"], public_key_bytes)

verify_event_signature(event_dict, public_key_bytes) ==
    LET r == VerifyEventSignatureBody(event_dict, public_key_bytes)
    IN  IF r.raised THEN Return(FALSE) ELSE r

\* list.sort(key=...) is stable: an element goes after those whose key is
\* less than or equal to its own
SortKey(e) == Get(e, "timestamp_ms", 0)

\* a sort with reverse=True: latest first
SortInsertDescending(sorted, e) ==
    LET n == Cardinality({i \in 1..Len(sorted) : SortKey(sorted[i]) >= SortKey(e)})
    IN  SubSeq(sorted, 1, n) \o << e >> \o SubSeq(sorted, n + 1, Len(sorted))

SortInsert(sorted, e) ==
    LET n == Cardinality({i \in 1..Len(sorted) : SortKey(sorted[i]) <= SortKey(e)})
    IN  SubSeq(sorted, 1, n) \o << e >> \o SubSeq(sorted, n + 1, Len(sorted))

RECURSIVE SortByTimestamp(_)
SortByTimestamp(events) ==
    IF events = << >> THEN << >>
    ELSE SortInsert(SortByTimestamp(SubSeq(events, 1, Len(events) - 1)),
                    events[Len(events)])

\* a selection that keeps the events of every sender
SenderEventsOfAll(events, sender_id) == SortByTimestamp(events)

\* [e for e in events if e.get('sender_id') == sender_id], then sorted
SenderEvents(events, sender_id) ==
    SortByTimestamp(SelectSeq(events, LAMBDA e : Get(e, "sender_id", "") = sender_id))

\* the loop without the comparison of a later record's prev_event_hash
RECURSIVE ChainLoopNoLinkCheck(_, _)
ChainLoopNoLinkCheck(sender_events, prev_hash) ==
    IF sender_events = << >> THEN TRUE
    ELSE LET event == Head(sender_events)
             expected_prev_hash == Get(event, "prev_event_hash", None)
         IN  IF prev_hash = None /\ expected_prev_hash # None THEN FALSE
             ELSE ChainLoopNoLinkCheck(Tail(sender_events),
                                       Some(compute_event_hash(event)))

\* the loop that keeps the hash of the first record as prev_hash
RECURSIVE ChainLoopStalePrev(_, _)
ChainLoopStalePrev(sender_events, prev_hash) ==
    IF sender_events = << >> THEN TRUE
    ELSE LET event == Head(sender_events)
             expected_prev_hash == Get(event, "prev_event_hash", None)
         IN  IF prev_hash = None
             THEN IF expected_prev_hash # None THEN FALSE
                  ELSE ChainLoopStalePrev(Tail(sender_events),
                                          Some(compute_event_hash(event)))
             ELSE IF expected_prev_hash # prev_hash THEN FALSE
                  ELSE ChainLoopStalePrev(Tail(sender_events), prev_hash)

\* the loop without the check of the first record
RECURSIVE ChainLoopNoFirstCheck(_, _)
ChainLoopNoFirstCheck(sender_events, prev_hash) ==
    IF sender_events = << >> THEN TRUE
    ELSE LET event == Head(sender_events)
             expected_prev_hash == Get(event, "prev_event_hash", None)
         IN  IF prev_hash # None /\ expected_prev_hash # prev_hash THEN FALSE
             ELSE ChainLoopNoFirstCheck(Tail(sender_events),
                                        Some(compute_event_hash(event)))

\* the for loop of verify_hash_chain
RECURSIVE ChainLoop(_, _)
ChainLoop(sender_events, prev_hash) ==
    IF sender_events = << >> THEN TRUE
    ELSE LET event == Head(sender_events)
             expected_prev_hash == Get(event, "prev_event_hash", None)
         IN  IF prev_hash = None
             THEN IF expected_prev_hash # None THEN FALSE
                  ELSE ChainLoop(Tail(sender_events), Some(compute_event_hash(event)))
             ELSE IF expected_prev_hash # prev_hash THEN FALSE
                  ELSE ChainLoop(Tail(sender_events), Some(compute_event_hash(event)))

verify_hash_chain(events, sender_id) ==
    LET sender_events == SenderEvents(events, sender_id)
    IN  IF sender_events = << >> THEN TRUE ELSE ChainLoop(sender_events, None)

\* build_hash_chain
build_hash_chain(events, sender_id) ==
    LET sender_events == SenderEvents(events, sender_id)
    IN  [i \in 1..Len(sender_events) |-> compute_event_hash(sender_events[i])]

\* ------------------------------------------------------ core/events.py
\* Event.generate_event_id: room, the ISO form of the timestamp, a uuid4
generate_event_id(room_id, timestamp_ms, uuid) == << room_id, timestamp_ms, uuid >>

\* create_message_event
create_message_event(room_id, sender_id, message, timestamp_ms, parent_event_id, prev_event_hash, uuid) ==
    [ event_id |-> generate_event_id(room_id, timestamp_ms, uuid),
      room_id |-> room_id,
      timestamp_ms |-> timestamp_ms,
      sender_id |-> sender_id,
      type |-> MESSAGE,
      parent_event_id |-> parent_event_id,
      prev_event_hash |-> prev_event_hash,
      signature |-> EmptySignature,
      content |-> [body |-> Strip(message), msgtype |-> "m.text"] ]

\* the event_data dict of create_test_event (core/crypto.py): no signature,
\* parent_event_id or prev_event_hash key
TestEventData(room_id, sender_id, message, now_ms, uuid) ==
    [ event_id |-> << room_id, now_ms, uuid >>,
      room_id |-> room_id,
      timestamp_ms |-> now_ms,
      sender_id |-> sender_id,
      type |-> MESSAGE,
      content |-> [body |-> message, msgtype |-> "m.text"] ]

create_test_event(room_id, sender_id, message, keypair, now_ms, uuid) ==
    sign_event(TestEventData(room_id, sender_id, message, now_ms, uuid), keypair)

\* the fields of Event, in the order the class declares them
EventFields ==
    << "event_id", "room_id", "timestamp_ms", "sender_id", "type",
       "parent_event_id", "prev_event_hash", "signature", "content" >>

\* a timestamp check that turns away the hour itself
validate_timestamp_strict(v, now_ms) ==
    IF v <= 0 THEN Raise("ValueError")
    ELSE IF v >= now_ms + ONE_HOUR_MS THEN Raise("ValueError")
    ELSE Return(TRUE)

\* Event.validate_timestamp
validate_timestamp(v, now_ms) ==
    IF v <= 0 THEN Raise("ValueError")
    ELSE IF v > now_ms + ONE_HOUR_MS THEN Raise("ValueError")
    ELSE Return(TRUE)

\* an event id check that takes three parts or more
validate_event_id_at_least_three(v, values) ==
    IF Len(v) < 3 THEN Raise("ValueError")
    ELSE IF "room_id" \in DOMAIN values /\ v[1] # values["room_id"] THEN Raise("ValueError")
    ELSE Return(TRUE)

\* Event.validate_event_id: v is the sequence of the "::"-separated parts;
\* values holds the fields validated before this one, and event_id is the
\* first field of the class
validate_event_id(v, values) ==
    IF Len(v) < 2 THEN Raise("ValueError")
    ELSE IF Len(v) # 3 THEN Raise("ValueError")
    ELSE IF "room_id" \in DOMAIN values /\ v[1] # values["room_id"] THEN Raise("ValueError")
    ELSE Return(TRUE)

\* Event.validate_event_type
validate_event_type(v) ==
    IF v \notin {MESSAGE, MEMBER, REDACTION, EDIT, REACTION, TYPING}
    THEN Raise("ValueError")
    ELSE Return(TRUE)

\* the values a validator is handed: the fields declared, and so validated,
\* before its own
ValuesBefore(data, field) ==
    LET at == CHOOSE i \in 1..Len(EventFields) : EventFields[i] = field
        before == {EventFields[i] : i \in 1..(at - 1)} \cap DOMAIN data
    IN  [f \in before |-> data[f]]

\* Event(**data), Event.model_validate(data): the required fields are there,
\* the validators pass, parent_event_id and prev_event_hash default to None
EventModel(data, now_ms) ==
    IF ~({"event_id", "room_id", "timestamp_ms", "sender_id", "type", "signature",
          "content"} \subseteq DOMAIN data)
    THEN Raise("ValidationError")
    ELSE IF \/ validate_event_id(data["event_id"], ValuesBefore(data, "event_id")).raised
            \/ validate_timestamp(data["timestamp_ms"], now_ms).raised
            \/ validate_event_type(data["type"]).raised
    THEN Raise("ValidationError")
    ELSE Return([f \in {EventFields[i] : i \in 1..Len(EventFields)} |->
                    Get(data, f, None)])

\* validate_event_dict: whether Event.model_validate takes the dict
validate_event_dict(event_dict, now_ms) == ~EventModel(event_dict, now_ms).raised

\* Event.to_dict: model_dump, every field of the class
to_dict(event) == [f \in {EventFields[i] : i \in 1..Len(EventFields)} |-> event[f]]

\* a dump that writes the timestamp in seconds
to_jsonl_line_in_seconds(event) ==
    << Piece([i \in 1..Len(EventFields) |->
                IF EventFields[i] = "timestamp_ms"
                THEN << "timestamp_ms", event["timestamp_ms"] \div 1000 >>
                ELSE << EventFields[i], event[EventFields[i]] >>], TRUE) >>

\* model_dump_json: the fields in declared order, None fields included
model_dump_json(event) ==
    [i \in 1..Len(EventFields) |-> << EventFields[i], event[EventFields[i]] >>]

\* Event.to_jsonl_line: model_dump_json() + "\n"
to_jsonl_line(event) == << Piece(model_dump_json(event), TRUE) >>

\* model_validate_json: the JSON object of the text, validated; a text cut
\* short of its required fields raises like any text that does not parse
model_validate_json(text, now_ms) ==
    EventModel([f \in {text[i][1] : i \in 1..Len(text)} |->
                   text[CHOOSE i \in 1..Len(text) : text[i][1] = f][2]], now_ms)

\* Event.from_jsonl_line: model_validate_json(line.strip())
from_jsonl_line(line, now_ms) == model_validate_json(StripLine(line), now_ms)

\* create_member_event: displayname is left out of the content when empty
create_member_event(room_id, sender_id, membership, displayname, timestamp_ms, prev_event_hash, uuid) ==
    [ event_id |-> generate_event_id(room_id, timestamp_ms, uuid),
      room_id |-> room_id,
      timestamp_ms |-> timestamp_ms,
      sender_id |-> sender_id,
      type |-> MEMBER,
      parent_event_id |-> None,
      prev_event_hash |-> prev_event_hash,
      signature |-> EmptySignature,
      content |-> IF displayname # ""
                  THEN [membership |-> membership, displayname |-> displayname]
                  ELSE [membership |-> membership] ]

create_reaction_event(room_id, sender_id, target_event_id, reaction, timestamp_ms, prev_event_hash, uuid) ==
    [ event_id |-> generate_event_id(room_id, timestamp_ms, uuid),
      room_id |-> room_id,
      timestamp_ms |-> timestamp_ms,
      sender_id |-> sender_id,
      type |-> REACTION,
      parent_event_id |-> None,
      prev_event_hash |-> prev_event_hash,
      signature |-> EmptySignature,
      content |-> [relates_to |-> target_event_id, reaction |-> Strip(reaction)] ]

\* ----------------------------------------------------- core/storage.py
\* get_date_string: the calendar day of a timestamp
get_date_string(timestamp_ms) == timestamp_ms \div DayLength

\* the characters of the user ids and client ids of the model
CharsOf(s) ==
    CASE s = "alice" -> << "a", "l", "i", "c", "e" >>
      [] s = "bob" -> << "b", "o", "b" >>
      [] s = "carol" -> << "c", "a", "r", "o", "l" >>
      [] s = "alice@a.org" -> << "a", "l", "i", "c", "e", "@", "a", ".", "o", "r", "g" >>
      [] s = "alice@b.org" -> << "a", "l", "i", "c", "e", "@", "b", ".", "o", "r", "g" >>
      [] s = "al.ice" -> << "a", "l", ".", "i", "c", "e" >>
      [] s = "bob_1" -> << "b", "o", "b", "_", "1" >>
      [] s = "bob1" -> << "b", "o", "b", "1" >>
      [] s = "bob-1" -> << "b", "o", "b", "-", "1" >>

\* the string of a list of characters
StringOf(chars) ==
    CHOOSE s \in {"alice", "bob", "carol", "alice@a.org", "alice@b.org", "al.ice",
                  "bob_1", "bob1", "bob-1"} : CharsOf(s) = chars

\* str.isalnum() of one character
IsAlnum(c) ==
    c \in {"a", "b", "c", "e", "g", "i", "l", "o", "r",
           "0", "1", "2", "3", "4", "5", "6", "7", "8", "9"}

\* user_id.split('@')[0]: the characters before the first "@"
BeforeAt(chars) ==
    IF \E i \in 1..Len(chars) : chars[i] = "@"
    THEN SubSeq(chars, 1, (CHOOSE i \in 1..Len(chars) :
                              /\ chars[i] = "@"
                              /\ \A j \in 1..(i - 1) : chars[j] # "@") - 1)
    ELSE chars

\* generate_client_id: the part before "@", its letters, digits and "_" only
generate_client_id(user_id) ==
    LET client_id == BeforeAt(CharsOf(user_id))
    IN  StringOf(SelectSeq(client_id, LAMBDA c : IsAlnum(c) \/ c = "_"))

\* the decimal digits of a natural number
RECURSIVE Digits(_)
Digits(n) ==
    LET digit == << "0", "1", "2", "3", "4", "5", "6", "7", "8", "9" >>[(n % 10) + 1]
    IN  IF n < 10 THEN << digit >> ELSE Append(Digits(n \div 10), digit)

\* the file name of get_daily_log_path, character by character:
\* f"messages_{start_ts}_{end_ts}_{client_id}.jsonl"
LogFileName(start_ts, end_ts, client_id) ==
    << "messages", "_" >> \o Digits(start_ts) \o << "_" >> \o Digits(end_ts)
        \o << "_" >> \o CharsOf(client_id) \o << ".jsonl" >>

\* UnifiedStorage.get_daily_log_path:
\* rooms/<room>/logs/<date>/messages_<start>_<end>_<client>.jsonl
get_daily_log_path(room_id, date_str, start_ts, end_ts, client_id) ==
    [ room_id |-> room_id, date_str |-> date_str, start_ts |-> start_ts,
      end_ts |-> end_ts, client_id |-> client_id ]

\* the path as the string the storage backend sees:
\* rooms/<room>/logs/<date>/<file name>
PathString(path) ==
    << "rooms", path.room_id, "logs", path.date_str,
       LogFileName(path.start_ts, path.end_ts, path.client_id) >>

\* open(path, 'w') and write: the file holds the content written last
WriteFile(fs, path, content) ==
    [p \in (DOMAIN fs) \cup {path} |-> IF p = path THEN content ELSE fs[p]]

\* a write that is tried a second time when the first fails, and then goes
\* through
write_jsonl_file_retried(fs, path, events, ok) ==
    [fs |-> WriteFile(fs, path, JoinEvents(events)), value |-> TRUE, raised |-> FALSE,
     attempts |-> IF ok THEN 1 ELSE 2]

\* UnifiedStorage.write_jsonl_file: one open(path, 'w') and write of the
\* joined events; an exception of the backend is caught and False returned.
\* ok is whether the backend takes the write
write_jsonl_file(fs, path, events, ok) ==
    LET content == JoinEvents(events)
    IN  IF ok
        THEN [fs |-> WriteFile(fs, path, content), value |-> TRUE, raised |-> FALSE,
              attempts |-> 1]
        ELSE [fs |-> fs, value |-> FALSE, raised |-> FALSE, attempts |-> 1]

\* UnifiedStorage.delete_file: unlink when the file is there
delete_file(fs, path) == [p \in (DOMAIN fs) \ {path} |-> fs[p]]

\* a read that lets a missing file show as one empty line
read_jsonl_file_of_missing(fs, path) ==
    IF path \in DOMAIN fs
    THEN SelectSeq(SplitLines(fs[path]), LAMBDA line : StripLine(line) # << >>)
    ELSE << << >> >>

\* UnifiedStorage.read_jsonl_file: the lines of the file that are not blank;
\* open() of a missing file raises, which is caught and [] returned
read_jsonl_file(fs, path) ==
    IF path \in DOMAIN fs
    THEN SelectSeq(SplitLines(fs[path]), LAMBDA line : StripLine(line) # << >>)
    ELSE << >>

\* the place of a log file in the sorted listing of a room
PathKey(path) ==
    (path.date_str * (MaxNow + 1) + path.start_ts) * (Len(Strings) + 1)
        + Utf8(path.client_id)

RECURSIVE SortedPaths(_)
SortedPaths(paths) ==
    IF paths = {} THEN << >>
    ELSE LET first == CHOOSE p \in paths : \A q \in paths : PathKey(p) <= PathKey(q)
         IN  << first >> \o SortedPaths(paths \ {first})

\* UnifiedStorage.list_log_files(room_id): every messages_*.jsonl of the room
list_log_files(fs, room_id) ==
    SortedPaths({p \in DOMAIN fs : p.room_id = room_id})

\* ---------------------------------------------------- client/client.py
\* KeyManager.get_or_create_keypair: the keypair the keyring holds for a user
KeyOf(user_id) ==
    CASE user_id = "alice" -> "k1"
      [] user_id = "bob" -> "k2"

\* the events stored in a room, as dicts: every line of every log file of the
\* room that Event.from_jsonl_line accepts
StoredEvents(fs, room_id, now_ms) ==
    LET paths == list_log_files(fs, room_id)
        lines == Flatten([i \in 1..Len(paths) |-> read_jsonl_file(fs, paths[i])])
        valid == SelectSeq(lines, LAMBDA l : ~from_jsonl_line(l, now_ms).raised)
    IN  [i \in 1..Len(valid) |-> from_jsonl_line(valid[i], now_ms).value]

\* BucketChatClient._write_event_to_storage: the storage after the call,
\* whether the call raised, and the calls it made to the backend; ok is
\* whether the backend took the write
WriteEventToStorage(fs, user_id, event, ok) ==
    LET event_date == get_date_string(event["timestamp_ms"])
        client_id == generate_client_id(user_id)
        file_path == get_daily_log_path(event["room_id"], event_date,
                                        event["timestamp_ms"], event["timestamp_ms"],
                                        client_id)
        events == << to_jsonl_line(event) >>
        written == write_jsonl_file(fs, file_path, events, ok)
        success == written.value
    IN  [ raised |-> ~success,
          fs |-> written.fs,
          io |-> << [ op |-> "write_jsonl_file", path |-> file_path, events |-> events,
                      ok |-> ok, value |-> written.value, raised |-> written.raised,
                      attempts |-> written.attempts ] >> ]

\* BucketChatClient._send_member_event
SendMemberEvent(fs, user_id, keypair, room_id, membership, now_ms, uuid, ok) ==
    LET event_data == create_member_event(room_id, user_id, membership, user_id,
                                          now_ms, None, uuid)
        signed_event == sign_event(event_data, keypair)
        event == EventModel(signed_event, now_ms)
    IN  IF event.raised THEN [raised |-> TRUE, fs |-> fs, io |-> << >>]
        ELSE WriteEventToStorage(fs, user_id, event.value, ok)

\* ---------------------------------------------------------------- state
VARIABLES
    \* verify_hash_chain applied to lists of events
    chain,      \* the list handed to verify_hash_chain
    original,   \* the list before a record was removed or the order changed
    edit,       \* what was done to the original list, and where
    verdict,    \* None, or the sender checked and what verify_hash_chain returned
    \* sign_event, verify_event_signature and compute_event_hash on one event
    sig_event,  \* the event dict as it is now
    sig_base,   \* the event dict as it was built or, once signed, as signed
    sig_signer, \* None, or the keypair sign_event was called with
    sig_change, \* "", or the field changed since sig_base
    sig_check,  \* None, or the public key bytes and what verification did
    sig_hash,   \* None, or what compute_event_hash returned
    \* the clients and the storage they share
    files,        \* the log files: path -> lines
    metadata,     \* room -> None or the content of its metadata.json
    keypair,      \* user -> None or the client's keypair
    current_room, \* user -> None or the client's current room
    now,          \* the clock, in milliseconds
    uuids,        \* the number of uuid4 values handed out
    ret,          \* the last call: operation, user, room, and what it did
    \* the canonical encoding of one event dict held with its insertion order
    canon_items,  \* the dict as it is now: its items in insertion order
    canon_base,   \* the dict as the factory built it
    canon_moves,  \* the number of keys re-inserted so far
    canon_out,    \* None, or the hashes and signatures of both dicts
    \* Event validation and serialization of one event dict
    ev_data,      \* the dict handed to Event
    ev_now,       \* the clock of the validating side, in milliseconds
    ev_change,    \* "", or the field given another value since the factory
    ev_valid,     \* None, or the clock and what Event.model_validate did
    ev_back,      \* None, or what from_jsonl_line(to_jsonl_line(event)) did
    \* ensure_room_structure run by several callers, one step at a time
    room_meta,    \* room -> None or the content of its metadata.json
    room_pc,      \* caller -> where it is in ensure_room_structure
    room_clock,   \* the clock, in milliseconds
    room_writes,  \* room -> the number of times metadata.json was written
    room_first,   \* room -> None or the content written first
    room_calls,   \* the number of calls started
    \* the segment paths two writers derive
    path_in,      \* the user ids, room and timestamps of the two writers
    path_out,     \* None, or the two paths
    \* reading the log files of a room back
    rd_files,     \* the log files: path -> content
    rd_puts,      \* the number of lines written so far
    rd_out,       \* None, or the last read: what was asked and what came back
    \* a storage location handed to UnifiedStorage and to parse_storage_uri
    uri_in,       \* the location, and whether the cloud libraries are installed
    uri_out       \* None, or the storage object built and the parsed location

chainVars == << chain, original, edit, verdict >>

sigVars == << sig_event, sig_base, sig_signer, sig_change, sig_check, sig_hash >>

clientVars == << files, metadata, keypair, current_room, now, uuids, ret >>

canonVars == << canon_items, canon_base, canon_moves, canon_out >>

eventVars == << ev_data, ev_now, ev_change, ev_valid, ev_back >>

roomVars == << room_meta, room_pc, room_clock, room_writes, room_first, room_calls >>

pathVars == << path_in, path_out >>

readVars == << rd_files, rd_puts, rd_out >>

uriVars == << uri_in, uri_out >>

vars ==
    << chainVars, sigVars, clientVars, canonVars, eventVars, roomVars, pathVars,
       readVars, uriVars >>

\* the variables of the other specifications, and their idle values
notChain == << sigVars, clientVars, canonVars, eventVars, roomVars, pathVars,
             readVars, uriVars >>

notSig == << chainVars, clientVars, canonVars, eventVars, roomVars, pathVars,
             readVars, uriVars >>

notClient == << chainVars, sigVars, canonVars, eventVars, roomVars, pathVars,
             readVars, uriVars >>

notCanon == << chainVars, sigVars, clientVars, eventVars, roomVars, pathVars,
             readVars, uriVars >>

notEvent == << chainVars, sigVars, clientVars, canonVars, roomVars, pathVars,
             readVars, uriVars >>

notRoom == << chainVars, sigVars, clientVars, canonVars, eventVars, pathVars,
             readVars, uriVars >>

notPath == << chainVars, sigVars, clientVars, canonVars, eventVars, roomVars,
           readVars, uriVars >>

notRead == << chainVars, sigVars, clientVars, canonVars, eventVars, roomVars, pathVars,
              uriVars >>

notUri == << chainVars, sigVars, clientVars, canonVars, eventVars, roomVars, pathVars,
             readVars >>

NoCall ==
    [op |-> "", user_id |-> "", room_id |-> None, raised |-> FALSE, value |-> FALSE,
     io |-> << >>]

ClientIdle ==
    /\ files = << >>
    /\ metadata = [r \in Rooms |-> None]
    /\ keypair = [u \in Users |-> None]
    /\ current_room = [u \in Users |-> None]
    /\ now = 1
    /\ uuids = 0
    /\ ret = NoCall

ChainIdle ==
    /\ chain = << >>
    /\ original = << >>
    /\ edit = [kind |-> "none", at |-> 0, to |-> 0]
    /\ verdict = None

SigIdle ==
    /\ sig_event = [signature |-> [b64 |-> TRUE, len |-> 0, signer |-> "", msg |-> << >>]]
    /\ sig_base = sig_event
    /\ sig_signer = None
    /\ sig_change = ""
    /\ sig_check = None
    /\ sig_hash = None

CanonIdle ==
    /\ canon_items = << >>
    /\ canon_base = << >>
    /\ canon_moves = 0
    /\ canon_out = None

EventIdle ==
    /\ ev_data = [signature |-> EmptySignature]
    /\ ev_now = 1
    /\ ev_change = ""
    /\ ev_valid = None
    /\ ev_back = None

Idle == [at |-> "idle", room_id |-> "", metadata |-> None]

RoomIdle ==
    /\ room_meta = [r \in Rooms |-> None]
    /\ room_pc = [c \in Users |-> Idle]
    /\ room_clock = 1
    /\ room_writes = [r \in Rooms |-> 0]
    /\ room_first = [r \in Rooms |-> None]
    /\ room_calls = 0

PathIdle ==
    /\ path_in = None
    /\ path_out = None

ReadIdle ==
    /\ rd_files = << >>
    /\ rd_puts = 0
    /\ rd_out = << >>

UriIdle ==
    /\ uri_in = << >>
    /\ uri_out = << >>

\* ------------------------------------------- verify_hash_chain on lists
NoEdit == [kind |-> "none", at |-> 0, to |-> 0]

\* the places of the records of one sender in a list
PlacesOf(list, sender_id) == {i \in 1..Len(list) : list[i]["sender_id"] = sender_id}

\* the last, or the last but one, record of a sender in a list
LastOf(list, sender_id, back) ==
    LET places == PlacesOf(list, sender_id)
        upto == CHOOSE i \in places : Cardinality({j \in places : j >= i}) = back
    IN  list[upto]

ChainInit ==
    /\ ReadIdle
    /\ UriIdle
    /\ chain = << >>
    /\ original = << >>
    /\ edit = NoEdit
    /\ verdict = None
    /\ SigIdle
    /\ ClientIdle
    /\ CanonIdle
    /\ EventIdle
    /\ RoomIdle
    /\ PathIdle

\* one more record is built and appended: at the time of the record before it
\* or one millisecond later, with no prev_event_hash ("first"), the hash of
\* the sender's latest record ("last"), of the one before that ("stale") or of
\* the latest record of the list, whoever sent it ("any")
ChainAppend(sender_id, tie, link) ==
    /\ edit = NoEdit
    /\ verdict = None
    /\ Len(chain) < MaxLen
    /\ tie => chain # << >>
    /\ link = "last" => Cardinality(PlacesOf(chain, sender_id)) >= 1
    /\ link = "stale" => Cardinality(PlacesOf(chain, sender_id)) >= 2
    /\ link = "any" => chain # << >>
    /\ LET timestamp_ms ==
               IF chain = << >> THEN 1
               ELSE chain[Len(chain)]["timestamp_ms"] + (IF tie THEN 0 ELSE 1)
           prev_event_hash ==
               CASE link = "first" -> None
                 [] link = "last" -> Some(compute_event_hash(LastOf(chain, sender_id, 1)))
                 [] link = "stale" -> Some(compute_event_hash(LastOf(chain, sender_id, 2)))
                 [] link = "any" -> Some(compute_event_hash(chain[Len(chain)]))
           event == create_message_event("r1", sender_id, "m1", timestamp_ms,
                                         None, prev_event_hash, Len(chain) + 1)
       IN  chain' = Append(chain, event)
    /\ UNCHANGED << original, edit, verdict, notChain >>

\* the record at place i is removed from the list
ChainRemove(i) ==
    /\ edit = NoEdit
    /\ verdict = None
    /\ i \in 1..Len(chain)
    /\ original' = chain
    /\ chain' = SubSeq(chain, 1, i - 1) \o SubSeq(chain, i + 1, Len(chain))
    /\ edit' = [kind |-> "remove", at |-> i, to |-> 0]
    /\ UNCHANGED << verdict, notChain >>

\* the records at places i and j change places: the same records in another
\* physical order
ChainSwap(i, j) ==
    /\ edit = NoEdit
    /\ verdict = None
    /\ i \in 1..Len(chain)
    /\ j \in 1..Len(chain)
    /\ i < j
    /\ original' = chain
    /\ chain' = [chain EXCEPT ![i] = chain[j], ![j] = chain[i]]
    /\ edit' = [kind |-> "permute", at |-> i, to |-> j]
    /\ UNCHANGED << verdict, notChain >>

\* verify_hash_chain is called for one sender, on the list and on the list as
\* it was before the edit
ChainVerify(sender_id) ==
    /\ verdict = None
    /\ verdict' = Some([ sender_id |-> sender_id,
                         result |-> verify_hash_chain(chain, sender_id),
                         before |-> verify_hash_chain(original, sender_id) ])
    /\ UNCHANGED << chain, original, edit, notChain >>

ChainNext ==
    \/ \E sender_id \in Users, tie \in BOOLEAN, link \in {"first", "last", "stale", "any"} :
           ChainAppend(sender_id, tie, link)
    \/ \E i \in 1..MaxLen : ChainRemove(i)
    \/ \E i \in 1..MaxLen, j \in 1..MaxLen : ChainSwap(i, j)
    \/ \E sender_id \in Users : ChainVerify(sender_id)

SpecChain == ChainInit /\ [][ChainNext]_vars

\* ------------------- sign_event, verify_event_signature, compute_event_hash
\* the unsigned events the operations start from
UnsignedEvents ==
    { create_message_event("r1", "alice", "m1", 1, None, None, 1),
      create_message_event("r2", "bob", "m2", 2, Some(<< "r2", 1, 1 >>), Some(3), 2),
      TestEventData("r1", "alice", "m1", 1, 1) }

\* the fields of an event other than its signature; content.body is the body
\* inside the content dict
NonSignatureFields ==
    { "content.body", "timestamp_ms", "sender_id", "room_id", "event_id", "type",
      "prev_event_hash", "parent_event_id" }

\* the values a field may be changed to
FieldValues(field) ==
    CASE field = "content.body" -> Bodies
      [] field = "timestamp_ms" -> {1, 2}
      [] field = "sender_id" -> Users
      [] field = "room_id" -> Rooms
      [] field = "event_id" -> { << "r1", 1, 1 >>, << "r2", 2, 2 >>, << "r1", 1, 2 >> }
      [] field = "type" -> {MESSAGE, MEMBER}
      [] field = "prev_event_hash" -> {None, Some(3), Some(4)}
      [] field = "parent_event_id" -> {None, Some(<< "r2", 1, 1 >>), Some(<< "r1", 1, 1 >>)}

FieldOf(event, field) ==
    IF field = "content.body" THEN event["content"]["body"] ELSE event[field]

HasField(event, field) ==
    IF field = "content.body" THEN "content" \in DOMAIN event ELSE field \in DOMAIN event

SetField(event, field, value) ==
    IF field = "content.body"
    THEN Put(event, "content", Put(event["content"], "body", value))
    ELSE Put(event, field, value)

\* signature texts that no signing produced: not base64 at all, base64 of 63
\* bytes, base64 of 64 bytes that are the signature of nothing
MalformedSignatures ==
    { [b64 |-> FALSE, len |-> 0, signer |-> "", msg |-> << >>],
      [b64 |-> TRUE, len |-> 63, signer |-> "", msg |-> << >>],
      [b64 |-> TRUE, len |-> 64, signer |-> "", msg |-> << >>] }

\* public key bytes: of a keypair, or one byte short
PublicKeys ==
    {PublicKeyBytes(k) : k \in KeyPairs} \cup {[len |-> 31, key |-> "k1"]}

SigInit ==
    /\ ReadIdle
    /\ UriIdle
    /\ sig_event \in UnsignedEvents
    /\ sig_base = sig_event
    /\ sig_signer = None
    /\ sig_change = ""
    /\ sig_check = None
    /\ sig_hash = None
    /\ ChainIdle
    /\ ClientIdle
    /\ CanonIdle
    /\ EventIdle
    /\ RoomIdle
    /\ PathIdle

\* sign_event(event, kp)
SigSign(kp) ==
    /\ sig_change = ""
    /\ sig_check = None
    /\ sig_hash = None
    /\ sig_event' = sign_event(sig_event, kp)
    /\ sig_base' = sig_event'
    /\ sig_signer' = Some(kp)
    /\ UNCHANGED << sig_change, sig_check, sig_hash, notSig >>

\* one field other than the signature gets another value; the signature, if
\* any, stays
SigTamper(field, value) ==
    /\ sig_change = ""
    /\ sig_check = None
    /\ sig_hash = None
    /\ HasField(sig_event, field)
    /\ value # FieldOf(sig_event, field)
    /\ sig_event' = SetField(sig_event, field, value)
    /\ sig_change' = field
    /\ UNCHANGED << sig_base, sig_signer, sig_check, sig_hash, notSig >>

\* the signature key is deleted from the event
SigDropSignature ==
    /\ sig_change = ""
    /\ sig_check = None
    /\ sig_hash = None
    /\ "signature" \in DOMAIN sig_event
    /\ sig_event' = Pop(sig_event, "signature")
    /\ sig_change' = "signature"
    /\ UNCHANGED << sig_base, sig_signer, sig_check, sig_hash, notSig >>

\* the signature is replaced by the empty string or by a malformed text
SigReplaceSignature(text) ==
    /\ sig_change = ""
    /\ sig_check = None
    /\ sig_hash = None
    /\ Get(sig_event, "signature", None) # text
    /\ sig_event' = Put(sig_event, "signature", text)
    /\ sig_change' = "signature"
    /\ UNCHANGED << sig_base, sig_signer, sig_check, sig_hash, notSig >>

\* verify_event_signature(event, public_key_bytes)
SigVerify(public_key_bytes) ==
    /\ sig_check = None
    /\ sig_check' = Some([ public_key_bytes |-> public_key_bytes,
                           outcome |-> verify_event_signature(sig_event, public_key_bytes) ])
    /\ UNCHANGED << sig_event, sig_base, sig_signer, sig_change, sig_hash, notSig >>

\* compute_event_hash of the event as it is, as it was, without signature
\* key, with the empty signature and signed by each keypair
SigHash ==
    /\ sig_hash = None
    /\ sig_hash' = Some([ event |-> compute_event_hash(sig_event),
                          base |-> compute_event_hash(sig_base),
                          unsigned |-> compute_event_hash(Pop(sig_event, "signature")),
                          empty |-> compute_event_hash(
                                        Put(sig_event, "signature", EmptySignature)),
                          signed |-> [k \in KeyPairs |->
                                        compute_event_hash(sign_event(sig_event, k))] ])
    /\ UNCHANGED << sig_event, sig_base, sig_signer, sig_change, sig_check, notSig >>

SigNext ==
    \/ \E kp \in KeyPairs : SigSign(kp)
    \/ \E field \in NonSignatureFields : \E value \in FieldValues(field) :
           SigTamper(field, value)
    \/ SigDropSignature
    \/ \E text \in MalformedSignatures \cup {EmptySignature} : SigReplaceSignature(text)
    \/ \E public_key_bytes \in PublicKeys : SigVerify(public_key_bytes)
    \/ SigHash

SpecSig == SigInit /\ [][SigNext]_vars

\* ------------------------------------------------- the clients (Spec)
Init ==
    /\ ReadIdle
    /\ UriIdle
    /\ ClientIdle
    /\ ChainIdle
    /\ SigIdle
    /\ CanonIdle
    /\ EventIdle
    /\ RoomIdle
    /\ PathIdle

\* UnifiedStorage.file_exists, of the metadata.json of a room
file_exists(meta, room_id) == meta[room_id] # None

\* the metadata dict ensure_room_structure builds
RoomMetadata(room_id, now_ms) ==
    [ room_id |-> room_id, created_at |-> now_ms,
      version |-> "1.0", protocol |-> "bucket-chat-v1" ]

\* UnifiedStorage.write_json, to the metadata.json of a room: open(path, 'w')
\* and write; ok is whether the backend takes the write
write_json(meta, room_id, data, ok) ==
    IF ok THEN [meta EXCEPT ![room_id] = Some(data)] ELSE meta

\* a room set-up that writes metadata.json whether it is there or not
ensure_room_structure_overwrites(meta, room_id, now_ms, ok) ==
    write_json(meta, room_id, RoomMetadata(room_id, now_ms), ok)

\* UnifiedStorage.ensure_room_structure: metadata.json is written when
\* file_exists says it is not there; the result of write_json is not looked at
ensure_room_structure(meta, room_id, now_ms, ok) ==
    IF ~file_exists(meta, room_id)
    THEN write_json(meta, room_id, RoomMetadata(room_id, now_ms), ok)
    ELSE meta

\* the write_json call ensure_room_structure makes, if it makes one
MetadataWrite(meta, room_id, now_ms, ok) ==
    IF ~file_exists(meta, room_id)
    THEN << [ op |-> "write_json", room_id |-> room_id,
              data |-> RoomMetadata(room_id, now_ms), ok |-> ok, value |-> ok,
              raised |-> FALSE, attempts |-> 1 ] >>
    ELSE << >>

\* the record of a call: what it was, whether it raised, what it returned and
\* the writes it asked of the backend
Called(op, user_id, room_id, raised, value, io) ==
    [op |-> op, user_id |-> user_id, room_id |-> room_id, raised |-> raised,
     value |-> value, io |-> io]

\* BucketChatClient.initialize
Initialize(user_id) ==
    /\ keypair' = [keypair EXCEPT ![user_id] = Some(KeyOf(user_id))]
    /\ ret' = Called("initialize", user_id, None, FALSE, TRUE, << >>)
    /\ UNCHANGED << files, metadata, current_room, now, uuids, notClient >>

\* a join_room that takes the room as current before the join event is sent
JoinRoomEarly(user_id, room_id, meta_ok, log_ok) ==
    IF keypair[user_id] = None
    THEN /\ ret' = Called("join_room", user_id, Some(room_id), TRUE, FALSE, << >>)
         /\ UNCHANGED << files, metadata, keypair, current_room, now, uuids, notClient >>
    ELSE /\ uuids < MaxEvents
         /\ metadata' = ensure_room_structure(metadata, room_id, now, meta_ok)
         /\ uuids' = uuids + 1
         /\ current_room' = [current_room EXCEPT ![user_id] = Some(room_id)]
         /\ LET sent == SendMemberEvent(files, user_id, keypair[user_id][1], room_id,
                                        "join", now, uuids + 1, log_ok)
            IN  /\ files' = sent.fs
                /\ ret' = Called("join_room", user_id, Some(room_id), FALSE, ~sent.raised,
                                 MetadataWrite(metadata, room_id, now, meta_ok) \o sent.io)
         /\ UNCHANGED << keypair, now, notClient >>

\* BucketChatClient.join_room(room_id); meta_ok and log_ok are whether the
\* backend takes the write of metadata.json and of the log file
JoinRoom(user_id, room_id, meta_ok, log_ok) ==
    IF keypair[user_id] = None
    THEN /\ ret' = Called("join_room", user_id, Some(room_id), TRUE, FALSE, << >>)
         /\ UNCHANGED << files, metadata, keypair, current_room, now, uuids, notClient >>
    ELSE /\ uuids < MaxEvents
         /\ metadata' = ensure_room_structure(metadata, room_id, now, meta_ok)
         /\ uuids' = uuids + 1
         /\ LET sent == SendMemberEvent(files, user_id, keypair[user_id][1], room_id,
                                        "join", now, uuids + 1, log_ok)
            IN  /\ files' = sent.fs
                /\ current_room' = IF sent.raised THEN current_room
                                   ELSE [current_room EXCEPT ![user_id] = Some(room_id)]
                /\ ret' = Called("join_room", user_id, Some(room_id), FALSE, ~sent.raised,
                                 MetadataWrite(metadata, room_id, now, meta_ok) \o sent.io)
         /\ UNCHANGED << keypair, now, notClient >>

\* BucketChatClient.send_message(message, room_id); room_arg is None when the
\* caller names no room
SendMessage(user_id, message, room_arg, ok) ==
    LET room_id == IF room_arg # None THEN room_arg ELSE current_room[user_id]
    IN  IF room_id = None \/ keypair[user_id] = None
        THEN /\ ret' = Called("send_message", user_id, room_id, TRUE, FALSE, << >>)
             /\ UNCHANGED << files, metadata, keypair, current_room, now, uuids, notClient >>
        ELSE /\ uuids < MaxEvents
             /\ uuids' = uuids + 1
             /\ LET event_data == create_message_event(room_id[1], user_id, message, now,
                                                       None, None, uuids + 1)
                    signed_event == sign_event(event_data, keypair[user_id][1])
                    event == EventModel(signed_event, now)
                    written == IF event.raised THEN [raised |-> TRUE, fs |-> files, io |-> << >>]
                               ELSE WriteEventToStorage(files, user_id, event.value, ok)
                IN  /\ files' = written.fs
                    /\ ret' = Called("send_message", user_id, room_id, FALSE, ~written.raised,
                                         written.io)
             /\ UNCHANGED << metadata, keypair, current_room, now, notClient >>

\* BucketChatClient.leave_room(room_id); without a keypair the signing of the
\* member event raises, which leave_room reports as False
LeaveRoom(user_id, room_arg, ok) ==
    LET room_id == IF room_arg # None THEN room_arg ELSE current_room[user_id]
    IN  IF room_id = None
        THEN /\ ret' = Called("leave_room", user_id, room_id, FALSE, TRUE, << >>)
             /\ UNCHANGED << files, metadata, keypair, current_room, now, uuids, notClient >>
        ELSE /\ uuids < MaxEvents
             /\ uuids' = uuids + 1
             /\ LET sent == IF keypair[user_id] = None
                            THEN [raised |-> TRUE, fs |-> files, io |-> << >>]
                            ELSE SendMemberEvent(files, user_id, keypair[user_id][1],
                                                 room_id[1], "leave", now, uuids + 1, ok)
                IN  /\ files' = sent.fs
                    /\ current_room' =
                          IF ~sent.raised /\ room_id = current_room[user_id]
                          THEN [current_room EXCEPT ![user_id] = None]
                          ELSE current_room
                    /\ ret' = Called("leave_room", user_id, room_id, FALSE, ~sent.raised,
                                         sent.io)
             /\ UNCHANGED << metadata, keypair, now, notClient >>

\* a millisecond passes
Tick ==
    /\ now < MaxNow
    /\ now' = now + 1
    /\ UNCHANGED << files, metadata, keypair, current_room, uuids, ret, notClient >>

Next ==
    \/ \E user_id \in Users : Initialize(user_id)
    \/ \E user_id \in Users, room_id \in Rooms, meta_ok \in BOOLEAN, log_ok \in BOOLEAN :
           JoinRoom(user_id, room_id, meta_ok, log_ok)
    \/ \E user_id \in Users, room_arg \in {None} \cup {Some(r) : r \in Rooms}, ok \in BOOLEAN :
           SendMessage(user_id, "m1", room_arg, ok)
    \/ \E user_id \in Users, room_arg \in {None} \cup {Some(r) : r \in Rooms}, ok \in BOOLEAN :
           LeaveRoom(user_id, room_arg, ok)
    \/ Tick

Spec == Init /\ [][Next]_vars

\* ------------- the canonical encoding and the order of insertion (SpecCanon)
\* the keys of a content dict, in the order the factories write them
ContentKeys ==
    << "body", "msgtype", "membership", "displayname", "relates_to", "reaction" >>

\* a dict as a factory builds it: its keys in the order of the dict literal
InsertionOrdered(d) ==
    LET keys == SelectSeq(EventFields, LAMBDA k : k \in DOMAIN d)
        inner == SelectSeq(ContentKeys, LAMBDA k : k \in DOMAIN d["content"])
    IN  [i \in 1..Len(keys) |->
            IF keys[i] = "content"
            THEN << "content", [j \in 1..Len(inner) |-> << inner[j], d["content"][inner[j]] >>] >>
            ELSE << keys[i], d[keys[i]] >>]

\* v = d.pop(k); d[k] = v: the key is inserted anew and goes last
Reinsert(items, k) == Append(PopItem(items, k), << k, ItemValue(items, k) >>)

CanonInit ==
    /\ ReadIdle
    /\ UriIdle
    /\ canon_base \in {InsertionOrdered(d) : d \in UnsignedEvents}
    /\ canon_items = canon_base
    /\ canon_moves = 0
    /\ canon_out = None
    /\ ChainIdle
    /\ SigIdle
    /\ ClientIdle
    /\ EventIdle
    /\ RoomIdle
    /\ PathIdle

\* a key of the event dict is inserted anew
CanonReinsert(k) ==
    /\ canon_out = None
    /\ canon_moves < MaxMoves
    /\ \E i \in 1..Len(canon_items) : canon_items[i][1] = k
    /\ canon_items' = Reinsert(canon_items, k)
    /\ canon_moves' = canon_moves + 1
    /\ UNCHANGED << canon_base, canon_out, notCanon >>

\* a key of the content dict is inserted anew
CanonReinsertContent(k) ==
    /\ canon_out = None
    /\ canon_moves < MaxMoves
    /\ \E i \in 1..Len(ItemValue(canon_items, "content")) :
           ItemValue(canon_items, "content")[i][1] = k
    /\ canon_items' = PutItem(canon_items, "content",
                              Reinsert(ItemValue(canon_items, "content"), k))
    /\ canon_moves' = canon_moves + 1
    /\ UNCHANGED << canon_base, canon_out, notCanon >>

\* compute_event_hash and sign_event, of the dict as it is and as it was built
CanonEncode(kp) ==
    /\ canon_out = None
    /\ canon_out' = Some([ keypair |-> kp,
                           hash |-> compute_event_hash_items(canon_items),
                           base_hash |-> compute_event_hash_items(canon_base),
                           signed |-> sign_event_items(canon_items, kp),
                           base_signed |-> sign_event_items(canon_base, kp) ])
    /\ UNCHANGED << canon_items, canon_base, canon_moves, notCanon >>

CanonNext ==
    \/ \E k \in {EventFields[i] : i \in 1..Len(EventFields)} : CanonReinsert(k)
    \/ \E k \in {ContentKeys[i] : i \in 1..Len(ContentKeys)} : CanonReinsertContent(k)
    \/ \E kp \in KeyPairs : CanonEncode(kp)

SpecCanon == CanonInit /\ [][CanonNext]_vars

\* ------------------- Event validation and serialization (SpecEvent)
\* the unsigned dicts the factories return at time 1: a message, a member
\* event and a reaction, with texts that are blank or not
EventDrafts ==
    { create_message_event("r1", "alice", body, 1, None, None, 1) : body \in {"m1", " "} }
    \cup { create_member_event("r1", "alice", membership, "alice", 1, None, 1) :
              membership \in {"join", "bogus"} }
    \cup { create_reaction_event("r1", "alice", << "r1", 1, 1 >>, reaction, 1, None, 1) :
              reaction \in {"+1", " "} }
    \cup { create_test_event("r1", "alice", "m1", kp, 1, 1) : kp \in KeyPairs }

\* the fields of an event given another value before validation
EvFields == {"timestamp_ms", "event_id", "type", "room_id"}

\* the values they are given: timestamps around zero and around one hour
\* from now, event ids of one, two and four parts and of another room, a
\* type outside EventTypes and one inside, another room
EvFieldValues(field, now_ms) ==
    CASE field = "timestamp_ms" ->
            { 0, -1, now_ms + (ONE_HOUR_MS \div 2), now_ms + ONE_HOUR_MS,
              now_ms + ONE_HOUR_MS + 1, now_ms + 2 * ONE_HOUR_MS }
      [] field = "event_id" ->
            { << "r1" >>, << "r1", 1 >>, << "r1", 1, 1, 1 >>, << "r2", 1, 1 >> }
      [] field = "type" -> {"m.room.bogus", TYPING}
      [] field = "room_id" -> {"r2"}

EventInit ==
    /\ ReadIdle
    /\ UriIdle
    /\ ev_data \in EventDrafts
    /\ ev_now = 1
    /\ ev_change = ""
    /\ ev_valid = None
    /\ ev_back = None
    /\ ChainIdle
    /\ SigIdle
    /\ ClientIdle
    /\ CanonIdle
    /\ RoomIdle
    /\ PathIdle

\* one field of the dict gets another value
EvSet(field, value) ==
    /\ ev_change = ""
    /\ ev_valid = None
    /\ value # ev_data[field]
    /\ ev_data' = Put(ev_data, field, value)
    /\ ev_change' = field
    /\ UNCHANGED << ev_now, ev_valid, ev_back, notEvent >>

\* sign_event(event_data, kp)
EvSign(kp) ==
    /\ ev_valid = None
    /\ ev_data["signature"] = EmptySignature
    /\ ev_data' = sign_event(ev_data, kp)
    /\ UNCHANGED << ev_now, ev_change, ev_valid, ev_back, notEvent >>

\* a millisecond passes
EvTick ==
    /\ ev_now < MaxNow
    /\ ev_now' = ev_now + 1
    /\ UNCHANGED << ev_data, ev_change, ev_valid, ev_back, notEvent >>

\* Event.model_validate(ev_data) and validate_event_dict(ev_data)
EvValidate ==
    /\ ev_valid = None
    /\ ev_valid' = Some([ now |-> ev_now,
                          outcome |-> EventModel(ev_data, ev_now),
                          accepted |-> validate_event_dict(ev_data, ev_now) ])
    /\ UNCHANGED << ev_data, ev_now, ev_change, ev_back, notEvent >>

\* Event.from_jsonl_line(event.to_jsonl_line()) of the validated event
EvRoundTrip ==
    /\ ev_valid # None
    /\ ~ev_valid[1].outcome.raised
    /\ ev_back = None
    /\ ev_back' = Some(from_jsonl_line(to_jsonl_line(ev_valid[1].outcome.value), ev_now))
    /\ UNCHANGED << ev_data, ev_now, ev_change, ev_valid, notEvent >>

EventNext ==
    \/ \E field \in EvFields : \E value \in EvFieldValues(field, ev_now) : EvSet(field, value)
    \/ \E kp \in KeyPairs : EvSign(kp)
    \/ EvTick
    \/ EvValidate
    \/ EvRoundTrip

SpecEvent == EventInit /\ [][EventNext]_vars

\* ------------- ensure_room_structure, callers interleaved (SpecRoom)
\* the callers are clients of their own, each with its own event loop, on one
\* storage; a call suspends at "await self.file_exists(...)" and at
\* "await self.write_json(...)", so the steps of two calls may interleave
RoomInit ==
    /\ ReadIdle
    /\ UriIdle
    /\ RoomIdle
    /\ ChainIdle
    /\ SigIdle
    /\ ClientIdle
    /\ CanonIdle
    /\ EventIdle
    /\ PathIdle

\* the call starts: file_exists is asked; when the answer is yes the call
\* returns, otherwise the metadata dict is built with the time of now
EnsureCheck(c, room_id) ==
    /\ room_pc[c].at = "idle"
    /\ room_calls < MaxCalls
    /\ room_calls' = room_calls + 1
    /\ room_pc' = IF file_exists(room_meta, room_id) THEN room_pc
                  ELSE [room_pc EXCEPT ![c] =
                           [ at |-> "write_json", room_id |-> room_id,
                             metadata |-> Some(RoomMetadata(room_id, room_clock)) ]]
    /\ UNCHANGED << room_meta, room_clock, room_writes, room_first, notRoom >>

\* write_json(metadata_path, metadata), and the call returns
EnsureWrite(c, ok) ==
    /\ room_pc[c].at = "write_json"
    /\ LET room_id == room_pc[c].room_id
           data == room_pc[c].metadata[1]
       IN  /\ room_meta' = write_json(room_meta, room_id, data, ok)
           /\ room_writes' = IF ok THEN [room_writes EXCEPT ![room_id] = @ + 1]
                             ELSE room_writes
           /\ room_first' = IF ok /\ room_first[room_id] = None
                            THEN [room_first EXCEPT ![room_id] = Some(data)]
                            ELSE room_first
    /\ room_pc' = [room_pc EXCEPT ![c] = Idle]
    /\ UNCHANGED << room_clock, room_calls, notRoom >>

\* a millisecond passes
RoomTick ==
    /\ room_clock < MaxNow
    /\ room_clock' = room_clock + 1
    /\ UNCHANGED << room_meta, room_pc, room_writes, room_first, room_calls, notRoom >>

RoomNext ==
    \/ \E c \in Users, room_id \in Rooms : EnsureCheck(c, room_id)
    \/ \E c \in Users, ok \in BOOLEAN : EnsureWrite(c, ok)
    \/ RoomTick

SpecRoom == RoomInit /\ [][RoomNext]_vars

\* ------------------------- the segment paths of two writers (SpecPath)
\* user ids: plain names, addresses at two domains, names with a dot, a
\* dash or an underscore
UserIds ==
    {"alice", "alice@a.org", "alice@b.org", "al.ice", "bob", "bob_1", "bob-1", "bob1"}

\* timestamps of one and of two digits
PathTimestamps == {1, 2, 12, 21}

\* the path _write_event_to_storage derives for an event of a user
ClientPath(user_id, room_id, timestamp_ms) ==
    LET event_date == get_date_string(timestamp_ms)
        client_id == generate_client_id(user_id)
    IN  get_daily_log_path(room_id, event_date, timestamp_ms, timestamp_ms, client_id)

PathInit ==
    /\ ReadIdle
    /\ UriIdle
    /\ path_in \in [ u1 : UserIds, u2 : UserIds, room_id : Rooms,
                     ts1 : PathTimestamps, ts2 : PathTimestamps ]
    /\ path_out = None
    /\ ChainIdle
    /\ SigIdle
    /\ ClientIdle
    /\ CanonIdle
    /\ EventIdle
    /\ RoomIdle

\* each writer derives the path of an event of its own, as the client does
PathOfClient ==
    /\ path_out = None
    /\ path_out' = Some([ kind |-> "client",
                          p1 |-> ClientPath(path_in.u1, path_in.room_id, path_in.ts1),
                          p2 |-> ClientPath(path_in.u2, path_in.room_id, path_in.ts2) ])
    /\ UNCHANGED << path_in, notPath >>

\* get_daily_log_path for one room and day, on two (start_ts, end_ts,
\* client_id) triples
PathOfTriples(end1, end2) ==
    /\ path_out = None
    /\ path_out' = Some([ kind |-> "triples",
                          p1 |-> get_daily_log_path(path_in.room_id, 0, path_in.ts1, end1,
                                                    generate_client_id(path_in.u1)),
                          p2 |-> get_daily_log_path(path_in.room_id, 0, path_in.ts2, end2,
                                                    generate_client_id(path_in.u2)) ])
    /\ UNCHANGED << path_in, notPath >>

PathNext ==
    \/ PathOfClient
    \/ \E end1 \in PathTimestamps, end2 \in PathTimestamps : PathOfTriples(end1, end2)

SpecPath == PathInit /\ [][PathNext]_vars

\* ----------------------------- reading the log files back (SpecRead)
\* str.strip() of a file content: the "\n" at either end go
RECURSIVE StripContent(_)
StripContent(content) ==
    IF content = << >> THEN << >>
    ELSE IF Head(content).text = << >> THEN StripContent(Tail(content))
    ELSE LET last == content[Len(content)]
             front == SubSeq(content, 1, Len(content) - 1)
         IN  IF last.text = << >> THEN StripContent(front)
             ELSE front \o << Piece(last.text, FALSE) >>

\* a parse that gives up at the first line that fails
parse_events_until_failure(jsonl_content, now_ms) ==
    LET lines == SelectSeq(SplitLines(StripContent(jsonl_content)),
                           LAMBDA line : StripLine(line) # << >>)
        bad == {i \in 1..Len(lines) : from_jsonl_line(lines[i], now_ms).raised}
        stop == IF bad = {} THEN Len(lines)
                ELSE (CHOOSE i \in bad : \A j \in bad : i <= j) - 1
    IN  [i \in 1..stop |-> from_jsonl_line(lines[i], now_ms).value]

\* parse_events_from_jsonl: the lines of the stripped content that are not
\* blank, each handed to Event.from_jsonl_line; a line that raises is skipped
parse_events_from_jsonl(jsonl_content, now_ms) ==
    LET lines == SelectSeq(SplitLines(StripContent(jsonl_content)),
                           LAMBDA line : StripLine(line) # << >>)
        parsed == SelectSeq(lines, LAMBDA line : ~from_jsonl_line(line, now_ms).raised)
    IN  [i \in 1..Len(parsed) |-> from_jsonl_line(parsed[i], now_ms).value]

\* log_files[-10:]
LastFiles(log_files) ==
    SubSeq(log_files, IF Len(log_files) > RECENT_FILES
                      THEN Len(log_files) - RECENT_FILES + 1 ELSE 1, Len(log_files))

\* reversed(...)
Reversed(list) == [i \in 1..Len(list) |-> list[Len(list) + 1 - i]]

\* events[-limit:], which for a limit of 0 is events[0:]
LastEvents(events, limit) ==
    IF limit = 0 THEN events
    ELSE SubSeq(events, IF Len(events) > limit THEN Len(events) - limit + 1 ELSE 1,
                Len(events))

\* the read loop of get_messages: the events appended, file by file
MessagesRead(fs, room_id, now_ms) ==
    LET log_files == Reversed(LastFiles(list_log_files(fs, room_id)))
        lines == Flatten([i \in 1..Len(log_files) |-> read_jsonl_file(fs, log_files[i])])
        parsed == SelectSeq(lines, LAMBDA line : ~from_jsonl_line(line, now_ms).raised)
        events == [i \in 1..Len(parsed) |-> from_jsonl_line(parsed[i], now_ms).value]
    IN  SelectSeq(events, LAMBDA event : event["type"] = MESSAGE)

\* BucketChatClient.get_messages
get_messages(fs, room_id, limit, now_ms) ==
    LastEvents(SortByTimestamp(MessagesRead(fs, room_id, now_ms)), limit)

\* the clock of the reading side
ReadNow == MaxNow

\* the files of the harness: two segments of r1
ReadPaths ==
    { get_daily_log_path("r1", get_date_string(1), 1, 1, generate_client_id("alice")),
      get_daily_log_path("r1", get_date_string(2), 2, 2, generate_client_id("bob")) }

\* an event dict signed with the key of a user
SignedAs(event_dict, user_id) == sign_event(event_dict, KeyOf(user_id))

\* the lines a writer may leave in a file: messages of alice signed by
\* alice, a message of alice signed with the key of bob, a member event, a
\* line cut short, and an empty line
ReadLines ==
    LET m1 == SignedAs(create_message_event("r1", "alice", "m1", 1, None, None, 1), "alice")
        m2 == SignedAs(create_message_event("r1", "alice", "m2", 2, None, None, 2), "alice")
        forged == SignedAs(create_message_event("r1", "alice", "m3", 2, None, None, 4), "bob")
        member == SignedAs(create_member_event("r1", "alice", "join", "", 1, None, 5), "alice")
        line(d) == to_jsonl_line(EventModel(d, ReadNow).value)
    IN  { line(m1), line(m2), line(forged), line(member),
          << Piece(SubSeq(model_dump_json(EventModel(m1, ReadNow).value), 1, 3), TRUE) >>,
          << Piece(<< >>, TRUE) >> }

NoRead ==
    [op |-> "", path |-> None, room_id |-> "", limit |-> 0, value |-> << >>,
     raised |-> FALSE, fs |-> << >>, deleted |-> FALSE]

ReadInit ==
    /\ rd_files = << >>
    /\ rd_puts = 0
    /\ rd_out = NoRead
    /\ ChainIdle
    /\ SigIdle
    /\ ClientIdle
    /\ CanonIdle
    /\ EventIdle
    /\ RoomIdle
    /\ PathIdle
    /\ UriIdle

\* a writer leaves one more line in a file
ReadPut(path, line) ==
    /\ rd_puts < MaxLines
    /\ rd_puts' = rd_puts + 1
    /\ rd_files' = WriteFile(rd_files, path, Get(rd_files, path, << >>) \o line)
    /\ rd_out' = NoRead
    /\ UNCHANGED notRead

\* delete_file(path)
ReadDelete(path) ==
    /\ path \in DOMAIN rd_files
    /\ rd_files' = delete_file(rd_files, path)
    /\ rd_out' = [NoRead EXCEPT !.op = "delete_file", !.path = Some(path), !.fs = rd_files]
    /\ UNCHANGED << rd_puts, notRead >>

\* read_jsonl_file(path)
ReadFile(path) ==
    /\ rd_out' = [NoRead EXCEPT !.op = "read_jsonl_file", !.path = Some(path),
                                !.value = read_jsonl_file(rd_files, path),
                                !.fs = rd_files,
                                !.deleted = (rd_out.op = "delete_file"
                                             /\ rd_out.path = Some(path))]
    /\ UNCHANGED << rd_files, rd_puts, notRead >>

\* parse_events_from_jsonl(content of the file at path)
ReadParse(path) ==
    /\ path \in DOMAIN rd_files
    /\ rd_out' = [NoRead EXCEPT !.op = "parse_events_from_jsonl", !.path = Some(path),
                                !.value = parse_events_from_jsonl(rd_files[path], ReadNow),
                                !.fs = rd_files]
    /\ UNCHANGED << rd_files, rd_puts, notRead >>

\* get_messages(room_id, limit)
ReadMessages(room_id, limit) ==
    /\ rd_out' = [NoRead EXCEPT !.op = "get_messages", !.room_id = room_id,
                                !.limit = limit,
                                !.value = get_messages(rd_files, room_id, limit, ReadNow),
                                !.fs = rd_files]
    /\ UNCHANGED << rd_files, rd_puts, notRead >>

ReadNext ==
    \/ \E path \in ReadPaths, line \in ReadLines : ReadPut(path, line)
    \/ \E path \in ReadPaths : ReadDelete(path)
    \/ \E path \in ReadPaths : ReadFile(path)
    \/ \E path \in ReadPaths : ReadParse(path)
    \/ \E limit \in {0, 1, MaxLines} : ReadMessages("r1", limit)

SpecRead == ReadInit /\ [][ReadNext]_vars

\* ------------------------------- the storage location (SpecUri)
\* a location is the list of its parts: a scheme with its "://" if it has
\* one, then names and "/" separators
CloudSchemes == {"s3://", "gs://", "az://"}

UriSchemes == CloudSchemes \cup {"file://", "S3://", "http://"}

UriRests ==
    { << >>, << "bucket" >>, << "bucket", "/", "prefix" >>, << "/", "data" >>,
      << "data", "/", "chat" >> }

Uris == UriRests \cup {<< scheme >> \o rest : scheme \in UriSchemes, rest \in UriRests}

\* str.startswith
StartsWith(uri, prefix) == uri # << >> /\ uri[1] = prefix

\* uri[5:].split('/', 1)
SplitOnce(parts) ==
    IF \E i \in 1..Len(parts) : parts[i] = "/"
    THEN LET at == CHOOSE i \in 1..Len(parts) :
                      parts[i] = "/" /\ \A j \in 1..(i - 1) : parts[j] # "/"
         IN  << SubSeq(parts, 1, at - 1), SubSeq(parts, at + 1, Len(parts)) >>
    ELSE << parts >>

\* UnifiedStorage.__init__: base_path and is_cloud; cloud_available is
\* CLOUD_AVAILABLE, whether aiofiles and cloudpathlib could be imported
UnifiedStorage(base_path, cloud_available) ==
    LET path == IF StartsWith(base_path, "file://")
                THEN [class |-> "Path", parts |-> Tail(base_path)]
                ELSE IF (\E scheme \in CloudSchemes : StartsWith(base_path, scheme))
                        /\ cloud_available
                THEN [class |-> "CloudPath", parts |-> base_path]
                ELSE [class |-> "Path", parts |-> base_path]
    IN  [base_path |-> path, is_cloud |-> path.class # "Path"]

\* parse_storage_uri
parse_storage_uri(uri) ==
    LET parts == SplitOnce(Tail(uri))
        prefix == IF Len(parts) > 1 THEN parts[2] ELSE << >>
    IN  IF StartsWith(uri, "s3://")
        THEN [type |-> "s3", bucket |-> parts[1], prefix |-> prefix, uri |-> uri]
        ELSE IF StartsWith(uri, "gs://")
        THEN [type |-> "gcs", bucket |-> parts[1], prefix |-> prefix, uri |-> uri]
        ELSE IF StartsWith(uri, "az://")
        THEN [type |-> "azure", container |-> parts[1], prefix |-> prefix, uri |-> uri]
        ELSE IF StartsWith(uri, "file://")
        THEN [type |-> "local", path |-> Tail(uri), uri |-> uri]
        ELSE [type |-> "local", path |-> uri, uri |-> << "file://" >> \o uri]

NoStorage == [storage |-> None, parsed |-> None]

UriInit ==
    /\ uri_in \in [uri : Uris, cloud_available : BOOLEAN]
    /\ uri_out = NoStorage
    /\ ChainIdle
    /\ SigIdle
    /\ ClientIdle
    /\ CanonIdle
    /\ EventIdle
    /\ RoomIdle
    /\ PathIdle
    /\ ReadIdle

\* UnifiedStorage(base_path)
UriConstruct ==
    /\ uri_out.storage = None
    /\ uri_out' = [uri_out EXCEPT
                      !.storage = Some(UnifiedStorage(uri_in.uri, uri_in.cloud_available))]
    /\ UNCHANGED << uri_in, notUri >>

\* parse_storage_uri(uri)
UriParse ==
    /\ uri_out.parsed = None
    /\ uri_out' = [uri_out EXCEPT !.parsed = Some(parse_storage_uri(uri_in.uri))]
    /\ UNCHANGED << uri_in, notUri >>

UriNext == UriConstruct \/ UriParse

SpecUri == UriInit /\ [][UriNext]_vars

\* ------------------------------------------------------ claims: the client
\* C1: after any sequence of join_room, send_message and leave_room calls by
\* an initialised client, the events the sender has written to a room form a
\* valid hash chain: verify_hash_chain over the room's stored events returns
\* True for that sender.
C1_ClientWritesValidChains ==
    \A user_id \in Users, room_id \in Rooms :
        keypair[user_id] # None
            => verify_hash_chain(StoredEvents(files, room_id, now), user_id) = TRUE

\* ------------------------------------------------ claims: the hash chain
\* the number of records of a sender in a list
CountOf(list, sender_id) == Cardinality(PlacesOf(list, sender_id))

\* the place in timestamp order (1 = earliest), among the records of its
\* sender, of the record at place i of a list; records of equal timestamp_ms
\* count in the order of the list
RankOf(list, i) ==
    Cardinality({j \in PlacesOf(list, list[i]["sender_id"]) :
                    \/ list[j]["timestamp_ms"] < list[i]["timestamp_ms"]
                    \/ list[j]["timestamp_ms"] = list[i]["timestamp_ms"] /\ j <= i})

\* the records of a sender have pairwise distinct content hashes
DistinctHashes(list, sender_id) ==
    \A i \in PlacesOf(list, sender_id), j \in PlacesOf(list, sender_id) :
        i # j => compute_event_hash(list[i]) # compute_event_hash(list[j])

\* a freshly built chain: every record is of the sender, timestamps increase
\* strictly, the first record has no prev_event_hash and every later one the
\* hash of the record before it
FreshChain(list, sender_id) ==
    /\ Len(list) >= 1
    /\ \A i \in 1..Len(list) : list[i]["sender_id"] = sender_id
    /\ list[1]["prev_event_hash"] = None
    /\ \A i \in 2..Len(list) :
          /\ list[i]["timestamp_ms"] > list[i - 1]["timestamp_ms"]
          /\ list[i]["prev_event_hash"] = Some(compute_event_hash(list[i - 1]))

\* a record of the checked sender was removed from a list that
\* verify_hash_chain accepted for that sender
RemovedFromValid ==
    /\ verdict # None
    /\ edit.kind = "remove"
    /\ original[edit.at]["sender_id"] = verdict[1].sender_id
    /\ verdict[1].before

\* C2: a sequence of N >= 1 records of one sender with strictly increasing
\* timestamp_ms, the first without prev_event_hash and each later one carrying
\* compute_event_hash of the record before it, passes verify_hash_chain.
C2_FreshChainVerifies ==
    (verdict # None /\ FreshChain(chain, verdict[1].sender_id))
        => verdict[1].result = TRUE

C2_Witness ==
    /\ verdict # None
    /\ Len(chain) = MaxLen
    /\ FreshChain(chain, verdict[1].sender_id)
    /\ verdict[1].result = TRUE

\* C3: from a valid chain of N >= 3 records of one sender with pairwise
\* distinct content hashes, removing one middle record (neither the first nor
\* the last in timestamp order) makes verify_hash_chain return False.
C3_MiddleRemovalDetected ==
    ( /\ RemovedFromValid
      /\ CountOf(original, verdict[1].sender_id) >= 3
      /\ DistinctHashes(original, verdict[1].sender_id)
      /\ RankOf(original, edit.at) > 1
      /\ RankOf(original, edit.at) < CountOf(original, verdict[1].sender_id) )
        => verdict[1].result = FALSE

C3_Witness ==
    /\ RemovedFromValid
    /\ CountOf(original, verdict[1].sender_id) >= 3
    /\ DistinctHashes(original, verdict[1].sender_id)
    /\ RankOf(original, edit.at) = 2
    /\ verdict[1].result = FALSE

\* C4 as claimed: from a valid chain of N >= 2 records, removing any single
\* record, whichever its position (first, middle or last), makes
\* verify_hash_chain return False.
C4_AnyRemovalDetected ==
    (RemovedFromValid /\ CountOf(original, verdict[1].sender_id) >= 2)
        => verdict[1].result = FALSE

\* C4 as amended: from a valid chain of N >= 2 records with pairwise distinct
\* content hashes, removing a record other than the last in timestamp order
\* makes verify_hash_chain return False; removing the last one leaves a chain
\* that verify_hash_chain accepts.
C4_RemovalDetectedUnlessLast ==
    ( /\ RemovedFromValid
      /\ CountOf(original, verdict[1].sender_id) >= 2
      /\ DistinctHashes(original, verdict[1].sender_id) )
        => verdict[1].result =
              (RankOf(original, edit.at) = CountOf(original, verdict[1].sender_id))

C4_Witness ==
    /\ RemovedFromValid
    /\ CountOf(original, verdict[1].sender_id) >= 2
    /\ DistinctHashes(original, verdict[1].sender_id)
    /\ RankOf(original, edit.at) = CountOf(original, verdict[1].sender_id)
    /\ verdict[1].result = TRUE

\* C5 as claimed: the result of verify_hash_chain does not depend on the order
\* of the input list, records of equal timestamp_ms included: every
\* permutation of a list gets the result of the list.
C5_OrderIndependent ==
    (verdict # None /\ edit.kind = "permute")
        => verdict[1].result = verdict[1].before

\* the earliest record of a sender in a list: smallest timestamp_ms, and among
\* records of that timestamp_ms the first of the list
Earliest(list, sender_id) ==
    CHOOSE i \in PlacesOf(list, sender_id) : RankOf(list, i) = 1

\* C6: verify_hash_chain returns False whenever the sender's earliest record
\* has a prev_event_hash that is not None, whatever the rest of the chain.
C6_FirstWithPrevRejected ==
    ( /\ verdict # None
      /\ CountOf(chain, verdict[1].sender_id) >= 1
      /\ chain[Earliest(chain, verdict[1].sender_id)]["prev_event_hash"] # None )
        => verdict[1].result = FALSE

C6_Witness ==
    /\ verdict # None
    /\ CountOf(chain, verdict[1].sender_id) >= 2
    /\ chain[Earliest(chain, verdict[1].sender_id)]["prev_event_hash"] # None
    /\ verdict[1].result = FALSE

\* ------------------------------------------- claims: signatures and hashes
\* the event was signed, and verification ran with the signer's public key
VerifiedWithSignersKey ==
    /\ sig_signer # None
    /\ sig_check # None
    /\ sig_check[1].public_key_bytes = PublicKeyBytes(sig_signer[1])

\* C7: a signed record is immutable: after sign_event with key k, changing the
\* value of any field other than the signature (content.body, timestamp_ms,
\* sender_id, room_id, event_id, type, prev_event_hash, parent_event_id) while
\* keeping the signature makes verify_event_signature with k's public key
\* return False.
C7_TamperInvalidatesSignature ==
    ( /\ VerifiedWithSignersKey
      /\ sig_change \in NonSignatureFields
      /\ sig_event["signature"] = sig_base["signature"] )
        => sig_check[1].outcome = Return(FALSE)

C7_Witness ==
    /\ VerifiedWithSignersKey
    /\ sig_change = "content.body"
    /\ sig_event["signature"] = sig_base["signature"]
    /\ FieldOf(sig_event, "content.body") # FieldOf(sig_base, "content.body")
    /\ sig_check[1].outcome = Return(FALSE)

\* C8: verify_event_signature(sign_event(e, k), pub) returns True if and only
\* if pub is the public key of k; a signature made with k never verifies under
\* the public key of another keypair.
C8_VerifiesUnderSignersKeyOnly ==
    (sig_signer # None /\ sig_change = "" /\ sig_check # None)
        => sig_check[1].outcome =
              Return(sig_check[1].public_key_bytes = PublicKeyBytes(sig_signer[1]))

C8_Witness ==
    /\ VerifiedWithSignersKey
    /\ sig_change = ""
    /\ sig_check[1].outcome = Return(TRUE)

\* the signature of the event is absent, empty, not base64 or not 64 bytes long
SignatureMalformed(event) ==
    \/ "signature" \notin DOMAIN event
    \/ /\ "signature" \in DOMAIN event
       /\ \/ event["signature"] = EmptySignature
          \/ ~event["signature"].b64
          \/ event["signature"].len # 64

\* C9: signature verification is a boolean outcome and never an error:
\* verify_event_signature returns False, without raising, when the signature
\* is absent, empty, not valid base64 or of the wrong length, or when the
\* public key bytes have the wrong length.
C9_MalformedInputReturnsFalse ==
    ( /\ sig_check # None
      /\ \/ SignatureMalformed(sig_event)
         \/ sig_check[1].public_key_bytes.len # 32 )
        => sig_check[1].outcome = Return(FALSE)

C9_Witness ==
    /\ sig_check # None
    /\ "signature" \notin DOMAIN sig_event
    /\ sig_check[1].public_key_bytes.len = 32
    /\ sig_check[1].outcome = Return(FALSE)

\* C10: compute_event_hash ignores the signature: the hash of an event with no
\* signature, with the empty signature and with a signature made by any
\* keypair are all equal; and two events that differ in a field other than the
\* signature are hashed from different canonical encodings.
C10_HashIgnoresSignature ==
    /\ sig_hash # None =>
          /\ sig_hash[1].event = sig_hash[1].unsigned
          /\ sig_hash[1].empty = sig_hash[1].unsigned
          /\ \A k \in KeyPairs : sig_hash[1].signed[k] = sig_hash[1].unsigned
    /\ sig_change \in NonSignatureFields =>
          CanonicalJson(sig_event) # CanonicalJson(sig_base)

C10_Witness ==
    /\ sig_hash # None
    /\ sig_signer # None
    /\ sig_change \in NonSignatureFields
    /\ sig_event["signature"] = sig_base["signature"]
    /\ sig_hash[1].event = sig_hash[1].unsigned
    /\ CanonicalJson(sig_event) # CanonicalJson(sig_base)

\* ------------------------------------- claims: the canonical encoding
\* C11: two event dicts that hold the same fields and values, also inside the
\* content, built in different insertion orders, have the same canonical
\* encoding, the same compute_event_hash and the same signature under
\* sign_event with one key; the encoding is the one of the mapping alone.
C11_EncodingIgnoresInsertionOrder ==
    (canon_out # None /\ DictOf(canon_items) = DictOf(canon_base)) =>
        /\ canon_out[1].hash = canon_out[1].base_hash
        /\ ItemValue(canon_out[1].signed, "signature")
              = ItemValue(canon_out[1].base_signed, "signature")
        /\ JsonDumpsItems(PopItem(canon_items, "signature"), TRUE)
              = JsonDumpsItems(PopItem(canon_base, "signature"), TRUE)
        /\ JsonDumpsItems(PopItem(canon_items, "signature"), TRUE)
              = CanonicalJson(DictOf(canon_items))
        /\ canon_out[1].hash = compute_event_hash(DictOf(canon_items))

C11_Witness ==
    /\ canon_out # None
    /\ DictOf(canon_items) = DictOf(canon_base)
    /\ KeysOf(canon_items) # KeysOf(canon_base)
    /\ KeysOf(ItemValue(canon_items, "content")) # KeysOf(ItemValue(canon_base, "content"))
    /\ canon_out[1].hash = canon_out[1].base_hash
    /\ ItemValue(canon_out[1].signed, "signature")
          = ItemValue(canon_out[1].base_signed, "signature")

\* ------------------------------------------ claims: Event validation
\* the timestamps the claim lets through at clock n
TimestampOk(t, n) == 0 < t /\ t <= n + ONE_HOUR_MS

\* C12: Event validation accepts a timestamp_ms t exactly when
\* 0 < t <= now_ms + 3600000: a t that is zero, negative or more than one hour
\* ahead is rejected; a t half an hour or exactly one hour ahead is accepted
\* (the other fields being as the factory wrote them).
C12_TimestampWindow ==
    ev_valid # None =>
        LET t == ev_data["timestamp_ms"]
            n == ev_valid[1].now
        IN  /\ validate_timestamp(t, n).raised <=> ~TimestampOk(t, n)
            /\ ~TimestampOk(t, n) => (ev_valid[1].outcome.raised /\ ~ev_valid[1].accepted)
            /\ (TimestampOk(t, n) /\ ev_change \in {"", "timestamp_ms"}) =>
                   (~ev_valid[1].outcome.raised /\ ev_valid[1].accepted)

C12_Witness ==
    /\ ev_valid # None
    /\ ev_change = "timestamp_ms"
    /\ ev_data["timestamp_ms"] = ev_valid[1].now + ONE_HOUR_MS
    /\ ~ev_valid[1].outcome.raised

\* C13: Event validation rejects every event whose event_id has three parts
\* of which the first is not the event's room_id.
C13_RoomSegmentChecked ==
    ( /\ ev_valid # None
      /\ Len(ev_data["event_id"]) = 3
      /\ ev_data["event_id"][1] # ev_data["room_id"] )
        => (ev_valid[1].outcome.raised /\ ~ev_valid[1].accepted)

\* C14: Event validation rejects every event whose event_id does not split
\* into exactly three parts, and every event whose type is not one of the six
\* of EventTypes.
C14_IdShapeAndTypeChecked ==
    ( /\ ev_valid # None
      /\ \/ Len(ev_data["event_id"]) # 3
         \/ ev_data["type"] \notin {MESSAGE, MEMBER, REDACTION, EDIT, REACTION, TYPING} )
        => (ev_valid[1].outcome.raised /\ ~ev_valid[1].accepted)

C14_Witness ==
    /\ ev_valid # None
    /\ Len(ev_data["event_id"]) = 2
    /\ ev_data["type"] = MESSAGE
    /\ ev_valid[1].outcome.raised

\* the content of an event fails the schema of its kind: a message body or a
\* reaction that is empty once stripped, a membership outside the five
ContentFails(data) ==
    \/ /\ data["type"] = MESSAGE
       /\ Strip(Get(data["content"], "body", "")) = ""
    \/ /\ data["type"] = MEMBER
       /\ Get(data["content"], "membership", "") \notin {"join", "leave", "invite", "ban", "kick"}
    \/ /\ data["type"] = REACTION
       /\ Strip(Get(data["content"], "reaction", "")) = ""

\* C15: an event whose content fails the schema of its kind is rejected by
\* Event validation, also when a factory built it.
C15_ContentChecked ==
    (ev_valid # None /\ ContentFails(ev_data))
        => (ev_valid[1].outcome.raised /\ ~ev_valid[1].accepted)

C18_MetadataWrittenOnce ==
    \A r \in Rooms :
        /\ room_writes[r] <= 1
        /\ room_first[r] # None => room_meta[r] = room_first[r]

\* C19: two writers with different user ids never derive the same segment
\* path, whatever the room, day and timestamps; and get_daily_log_path gives
\* distinct (start_ts, end_ts, client_id) triples distinct file names.
C19_WritersNeverCollide ==
    path_out # None =>
        /\ (path_out[1].kind = "client" /\ path_in.u1 # path_in.u2)
              => PathString(path_out[1].p1) # PathString(path_out[1].p2)
        /\ ( /\ path_out[1].kind = "triples"
             /\ << path_out[1].p1.start_ts, path_out[1].p1.end_ts, path_out[1].p1.client_id >>
                  # << path_out[1].p2.start_ts, path_out[1].p2.end_ts, path_out[1].p2.client_id >> )
              => LogFileName(path_out[1].p1.start_ts, path_out[1].p1.end_ts,
                             path_out[1].p1.client_id)
                   # LogFileName(path_out[1].p2.start_ts, path_out[1].p2.end_ts,
                                 path_out[1].p2.client_id)

\* C20: the log is append-only: a line that is in a segment file of a room
\* is in a segment file of that room after every later step of any client.
C20_AppendOnly ==
    [][\A p \in DOMAIN files : \A i \in 1..Len(read_jsonl_file(files, p)) :
          \E q \in DOMAIN files' :
              /\ q.room_id = p.room_id
              /\ \E j \in 1..Len(read_jsonl_file(files', q)) :
                     read_jsonl_file(files', q)[j] = read_jsonl_file(files, p)[i]]_vars

\* ------------------------------------------- claims: reading the log back
\* C21: read_jsonl_file on a path that holds no file, because none was ever
\* written there or because it was deleted, returns the empty list and does
\* not raise, and the storage is as it was.
C21_MissingFileReadsEmpty ==
    /\ \A path \in ReadPaths \ DOMAIN rd_files : read_jsonl_file(rd_files, path) = << >>
    /\ (rd_out.op = "read_jsonl_file" /\ rd_out.path[1] \notin DOMAIN rd_out.fs)
          => /\ rd_out.value = << >>
             /\ ~rd_out.raised
             /\ rd_files = rd_out.fs

C21_Witness ==
    /\ rd_out.op = "read_jsonl_file"
    /\ rd_out.deleted
    /\ rd_out.path[1] \notin DOMAIN rd_files
    /\ rd_files # << >>
    /\ rd_out.value = << >>

\* the lines a file holds, one to a piece: every writer leaves whole lines
LinesOf(content) == [i \in 1..Len(content) |-> << content[i] >>]

\* the places of the lines of a content that pass Event validation
ValidPlaces(content) ==
    {i \in 1..Len(content) : ~from_jsonl_line(LinesOf(content)[i], ReadNow).raised}

\* the places of the valid lines whose event is a message
MessagePlaces(content) ==
    {i \in ValidPlaces(content) :
        from_jsonl_line(LinesOf(content)[i], ReadNow).value["type"] = MESSAGE}

\* the events of the lines at the given places, in the order of the lines
EventsAt(content, places) ==
    [k \in 1..Cardinality(places) |->
        from_jsonl_line(
            LinesOf(content)[CHOOSE i \in places :
                                Cardinality({j \in places : j <= i}) = k],
            ReadNow).value]

\* the files of a room as the read loop of get_messages visits them
FilesVisited(fs, room_id) == Reversed(list_log_files(fs, room_id))

\* C22 as stated: parse_events_from_jsonl and the read loop of get_messages
\* both return exactly the events of the lines that pass Event validation,
\* in their original order.
C22_ValidLinesReturned ==
    /\ rd_out.op = "parse_events_from_jsonl"
          => rd_out.value = EventsAt(rd_out.fs[rd_out.path[1]],
                                     ValidPlaces(rd_out.fs[rd_out.path[1]]))
    /\ rd_out.op = "get_messages"
          => MessagesRead(rd_out.fs, rd_out.room_id, ReadNow)
               = Flatten([f \in 1..Len(FilesVisited(rd_out.fs, rd_out.room_id)) |->
                    LET content == rd_out.fs[FilesVisited(rd_out.fs, rd_out.room_id)[f]]
                    IN  EventsAt(content, ValidPlaces(content))])

\* C22, amended: a malformed line is skipped and the rest of its segment is
\* still read: parse_events_from_jsonl returns exactly the events of the
\* lines that pass Event validation, in their original order; the read loop
\* of get_messages collects, file by file, exactly the events of the lines
\* that pass Event validation and are of type m.room.message, in the order
\* of the lines.
C22_MalformedLinesSkipped ==
    /\ rd_out.op = "parse_events_from_jsonl"
          => rd_out.value = EventsAt(rd_out.fs[rd_out.path[1]],
                                     ValidPlaces(rd_out.fs[rd_out.path[1]]))
    /\ rd_out.op = "get_messages"
          => MessagesRead(rd_out.fs, rd_out.room_id, ReadNow)
               = Flatten([f \in 1..Len(FilesVisited(rd_out.fs, rd_out.room_id)) |->
                    LET content == rd_out.fs[FilesVisited(rd_out.fs, rd_out.room_id)[f]]
                    IN  EventsAt(content, MessagePlaces(content))])

\* a file whose second of three lines is malformed, parsed
C22_Witness ==
    /\ rd_out.op = "parse_events_from_jsonl"
    /\ Len(rd_out.fs[rd_out.path[1]]) = 3
    /\ ValidPlaces(rd_out.fs[rd_out.path[1]]) = {1, 3}
    /\ rd_out.fs[rd_out.path[1]][2].text # << >>
    /\ Len(rd_out.value) = 2
    /\ rd_out.value[1] # rd_out.value[2]

\* ------------------------------------- claims: one sender among others
\* the list restricted to the events of one sender
RestrictedTo(list, sender_id) == SelectSeq(list, LAMBDA e : e["sender_id"] = sender_id)

\* the record at place i with another prev_event_hash and another body
Corrupted(list, i) ==
    [list EXCEPT ![i] = [@ EXCEPT !["prev_event_hash"] =
                                      IF @ = None THEN Some(0) ELSE None,
                                  !["content"] = [body |-> "m2", msgtype |-> "m.text"]]]

\* a record of a sender, at a time, put at place i of the list
AddedAt(list, i, sender_id, timestamp_ms) ==
    SubSeq(list, 1, i - 1)
        \o << create_message_event("r1", sender_id, "m2", timestamp_ms, None, Some(0),
                                   MaxLen + 1) >>
        \o SubSeq(list, i, Len(list))

\* C23: the result of verify_hash_chain for a sender is its result on the
\* events of that sender alone; a record of another sender added in front
\* or at the end, earliest or latest, removed or corrupted leaves it as it
\* was; a sender with no event in the list is reported valid.
C23_OtherSendersDoNotCount ==
    \A s \in Users \cup {"carol"} :
        /\ verify_hash_chain(chain, s) = verify_hash_chain(RestrictedTo(chain, s), s)
        /\ PlacesOf(chain, s) = {} => verify_hash_chain(chain, s) = TRUE
        /\ \A i \in 1..Len(chain) : chain[i]["sender_id"] # s =>
              /\ verify_hash_chain(Corrupted(chain, i), s) = verify_hash_chain(chain, s)
              /\ verify_hash_chain(SubSeq(chain, 1, i - 1) \o SubSeq(chain, i + 1, Len(chain)), s)
                       = verify_hash_chain(chain, s)
        /\ \A i \in {1, Len(chain) + 1}, other \in Users \ {s}, t \in {1, MaxLen} :
              verify_hash_chain(AddedAt(chain, i, other, t), s) = verify_hash_chain(chain, s)
        /\ ( /\ verdict # None
             /\ verdict[1].sender_id = s
             /\ edit.kind = "remove"
             /\ original[edit.at]["sender_id"] # s )
              => verdict[1].result = verdict[1].before

\* a record of bob was removed from between two of alice, whose chain was and
\* stays broken
C23_Witness ==
    /\ verdict # None
    /\ verdict[1].sender_id = "alice"
    /\ edit.kind = "remove"
    /\ edit.at = 2
    /\ original[2]["sender_id"] = "bob"
    /\ Cardinality(PlacesOf(chain, "alice")) = 2
    /\ verdict[1].result = FALSE
    /\ verdict[1].before = FALSE

\* ------------------------------------------ claims: the history returned
\* the events of a sender stored in a room, in the order of their chain
ChainOf(fs, room_id, sender_id) ==
    LET stored == StoredEvents(fs, room_id, ReadNow)
    IN  SenderEvents([i \in 1..Len(stored) |-> to_dict(stored[i])], sender_id)

\* C24: every event get_messages returns has a signature that verifies under
\* the public key of its sender, and the chain of its sender, up to and
\* including the event, verifies.
C24_ReturnedEventsTrusted ==
    rd_out.op = "get_messages" =>
        \A i \in 1..Len(rd_out.value) :
            LET event_dict == to_dict(rd_out.value[i])
                sender_id == event_dict["sender_id"]
                events == ChainOf(rd_out.fs, rd_out.room_id, sender_id)
                at == CHOOSE k \in 1..Len(events) : events[k] = event_dict
            IN  /\ verify_event_signature(event_dict,
                                          PublicKeyBytes(KeyOf(sender_id))) = Return(TRUE)
                /\ verify_hash_chain(SubSeq(events, 1, at), sender_id)

\* ------------------------------------------ claims: the storage location
\* C25: the storage built for a location is a cloud backend exactly when the
\* location starts with s3://, gs:// or az://; for a file:// location the
\* local path is the location without its prefix, for a bare path the path
\* itself; and is_cloud agrees with the type parse_storage_uri reports.
C25_SchemeDecidesBackend ==
    uri_out.storage # None =>
        LET storage == uri_out.storage[1]
            uri == uri_in.uri
            cloud == \E scheme \in {"s3://", "gs://", "az://"} : StartsWith(uri, scheme)
        IN  /\ storage.is_cloud <=> cloud
            /\ StartsWith(uri, "file://")
                  => ~storage.is_cloud /\ storage.base_path.parts = Tail(uri)
            /\ (~cloud /\ ~StartsWith(uri, "file://"))
                  => ~storage.is_cloud /\ storage.base_path.parts = uri
            /\ uri_out.parsed # None
                  => (storage.is_cloud <=> uri_out.parsed[1].type # "local")

\* ------------------------------------------ claims: writes that fail
\* C26: a write the backend refuses is tried once, returns False and raises
\* nothing, and the send_message that asked for it returns False; after a
\* write_jsonl_file that returned True, read_jsonl_file of the same path
\* returns the lines written.
C26_FailedWriteReported ==
    \A i \in 1..Len(ret.io) :
        LET w == ret.io[i]
        IN  /\ w.attempts = 1
            /\ ~w.raised
            /\ ~w.ok => ~w.value
            /\ (w.op = "write_jsonl_file" /\ ~w.ok /\ ret.op = "send_message")
                  => ~ret.raised /\ ret.value = FALSE
            /\ (w.op = "write_jsonl_file" /\ w.value)
                  => read_jsonl_file(files, w.path)
                       = [k \in 1..Len(w.events) |->
                             << Piece(StripLine(w.events[k]), FALSE) >>]

\* a send_message whose write the backend refused
C26_Witness ==
    /\ ret.op = "send_message"
    /\ Len(ret.io) = 1
    /\ ret.io[1].op = "write_jsonl_file"
    /\ ~ret.io[1].ok
    /\ ret.value = FALSE
    /\ ret.io[1].path \notin DOMAIN files

\* ------------------------------ claims: the signature across storage
\* the event dict verifies under the public key of one of the keypairs
SignedBy(event_dict, kp) ==
    verify_event_signature(event_dict, PublicKeyBytes(kp)) = Return(TRUE)

\* C27: a signed event dict that passes validation, written as a line and
\* read back, still verifies under the key of its signer and has the hash it
\* had, whether it carries parent_event_id and prev_event_hash or not.
C27_SignatureSurvivesStorage ==
    (ev_back # None /\ ~ev_back[1].raised) =>
        \A kp \in KeyPairs : SignedBy(ev_data, kp) =>
            /\ SignedBy(to_dict(ev_back[1].value), kp)
            /\ compute_event_hash(to_dict(ev_back[1].value)) = compute_event_hash(ev_data)

\* ------------------------------------------ claims: the latest messages
\* the message events stored in a room, whatever the file
StoredMessages(fs, room_id) ==
    SelectSeq(StoredEvents(fs, room_id, ReadNow), LAMBDA event : event["type"] = MESSAGE)

\* the number of events of a list later than a time
LaterThan(events, timestamp_ms) ==
    Cardinality({i \in 1..Len(events) : events[i]["timestamp_ms"] > timestamp_ms})

\* C28: get_messages(room_id, limit) returns min(limit, total) events, all of
\* type m.room.message and stored in the room, in ascending order of
\* timestamp_ms, and no stored message later than a returned one is missing.
C28_LatestMessagesReturned ==
    rd_out.op = "get_messages" =>
        LET stored == StoredMessages(rd_out.fs, rd_out.room_id)
            total == Len(stored)
            returned == rd_out.value
        IN  /\ Len(returned) = IF rd_out.limit < total THEN rd_out.limit ELSE total
            /\ Len(returned) <= rd_out.limit
            /\ \A i \in 1..Len(returned) :
                  /\ returned[i]["type"] = MESSAGE
                  /\ \E j \in 1..total : stored[j] = returned[i]
                  /\ i > 1 => returned[i - 1]["timestamp_ms"] <= returned[i]["timestamp_ms"]
                  /\ LaterThan(stored, returned[i]["timestamp_ms"])
                        = LaterThan(returned, returned[i]["timestamp_ms"])

\* ------------------------------------------ claims: the client session
\* C29: over the calls of the clients: a client with a current room holds a
\* keypair; current_room becomes a room only by a join_room of that client
\* for that room that returned True, and every such join makes the room
\* current; a join_room or send_message that raises or returns False leaves
\* every current_room and every log file as they were; leave_room with no
\* room given and no current room returns True and leaves them as they were.
C29_SessionInvariant ==
    [][ /\ \A u \in Users :
              /\ current_room'[u] # None => keypair'[u] # None
              /\ (current_room'[u] # current_room[u] /\ current_room'[u] # None)
                    => /\ ret'.op = "join_room"
                       /\ ret'.user_id = u
                       /\ ~ret'.raised /\ ret'.value
                       /\ ret'.room_id = current_room'[u]
        /\ now' = now =>
              /\ (ret'.op = "join_room" /\ ~ret'.raised /\ ret'.value)
                    => current_room'[ret'.user_id] = ret'.room_id
              /\ (ret'.op \in {"join_room", "send_message"} /\ (ret'.raised \/ ~ret'.value))
                    => current_room' = current_room /\ files' = files
              /\ (ret'.op = "leave_room" /\ ret'.room_id = None)
                    => /\ ~ret'.raised /\ ret'.value
                       /\ current_room' = current_room /\ files' = files
      ]_vars

\* alice, in r1, called join_room for r2 and the write of the join event
\* failed
C29_Witness ==
    /\ ret.op = "join_room"
    /\ ret.user_id = "alice"
    /\ ret.room_id = Some("r2")
    /\ ~ret.raised /\ ~ret.value
    /\ current_room["alice"] = Some("r1")
    /\ \A p \in DOMAIN files : p.room_id = "r1"

\* C30: every room that holds a log segment holds its metadata.json.
C30_SegmentsHaveMetadata ==
    \A room_id \in Rooms :
        (\E p \in DOMAIN files : p.room_id = room_id) => file_exists(metadata, room_id)

====
